---- MODULE Spec2Model ----
(***************************************************************************)
(* A model of the TRAPD honeypot back end (backend/rust_honeypots):        *)
(* the HTTP request pipeline of http_honeypot.rs, the process-wide Timing  *)
(* Tracker behind its mutex, the geolocation lookup of common.rs and the   *)
(* SSH connection handler of ssh_honeypot.rs.                              *)
(*                                                                         *)
(* Every request or connection is handled by a task.  A task's position in *)
(* its handler is pc[t]; its arguments are req[t] and its local variables  *)
(* are loc[t].  Time is in milliseconds; the clock advances when a task    *)
(* reads it.                                                               *)
(***************************************************************************)
EXTENDS Integers, Sequences, FiniteSets, TLC

VARIABLES
    now,             \* the wall clock, ms
    timing_tracker,  \* TIMING_TRACKER: client_ip -> Vec<DateTime<Utc>>
    mutex,           \* the Mutex around the tracker: "free" or the holding task
    pc,              \* task -> position in its handler
    req,             \* task -> arguments of the call it runs
    loc,             \* task -> local variables of the call it runs
    last,            \* the TimingPattern returned by the latest completed call
    seen,            \* history: source IP -> the [at, port] of each of its requests
    workload,        \* which traffic the environment offers in this run
    calls,           \* number of calls started so far
    net              \* history: task -> the outbound calls and socket events, in
                     \* order, of the request or connection it handles or
                     \* handled last

vars == <<now, timing_tracker, mutex, pc, req, loc, last, seen, workload, calls, net>>

(***************************************************************************)
(* Bounds of the model.                                                    *)
(***************************************************************************)
\* requests offered in the "mixed" workload
MaxCalls == 3
\* requests offered in the "burst" workload (one source, 20 ms apart)
MaxBurst == 102
\* the clock never passes this value
MaxTime == 3700000

Tasks == {"t1", "t2"}

(***************************************************************************)
(* Source addresses (std::net::SocketAddr).  An IpAddr is its family and   *)
(* its groups.                                                             *)
(***************************************************************************)
V4(a, b, c, d) == [v |-> 4, o |-> <<a, b, c, d>>]
\* the eight 16-bit groups of an IPv6 address
V6(g) == [v |-> 6, o |-> g]

AttackerA == V4(203, 0, 113, 7)
AttackerB == V4(198, 51, 100, 9)
TimingIps == {AttackerA, AttackerB}
TimingPorts == {40001, 40002}

SockAddr(ip, port) == [ip |-> ip, port |-> port]

\* addr.ip().to_string(): the textual form lists exactly the groups of the
\* address; the port is not part of it.
ClientIpKeyWithPort(addr) == <<addr.ip.o, addr.port>>
ClientIpKey(addr) == addr.ip.o

(***************************************************************************)
(* analyze_timing_patterns and its helpers.                                *)
(***************************************************************************)
MAX_TRACKED == 100
HOUR_MS == 3600000
BURST_WINDOW_MS == 10000
FAST_INTERVAL_MS == 100
VARIANCE_LIMIT == 1000
AVG_LIMIT == 1000

None == <<>>
Some(x) == <<x>>
\* Option::unwrap_or
unwrap_or(opt, default) == IF opt = None THEN default ELSE opt[1]

\* i64 division truncates toward zero
TruncDiv(a, b) ==
    IF a >= 0 THEN a \div b ELSE -((-a) \div b)

\* The i64 values of determine_scan_pattern exceed the integers of the
\* checker.  A square or a sum at or above SatCap is kept as SatCap: the
\* only use of these values is the comparison of sum / len with
\* VARIANCE_LIMIT, and SatCap / len is above it for every len <= MAX_TRACKED.
SqrtCap == 2^15
SatCap == 2^30

Pow2(d) ==
    IF d >= SqrtCap \/ d <= -SqrtCap THEN SatCap ELSE d * d

SatAdd(a, b) ==
    IF a >= SatCap - b THEN SatCap ELSE a + b

RECURSIVE SumSeq(_)
SumSeq(s) ==
    IF s = <<>> THEN 0 ELSE s[1] + SumSeq(Tail(s))

RECURSIVE SumSquares(_, _)
SumSquares(s, avg) ==
    IF s = <<>> THEN 0 ELSE SatAdd(Pow2(s[1] - avg), SumSquares(Tail(s), avg))

\* requests.windows(2).map(|w| w[1] - w[0])
Intervals(requests) ==
    [i \in 1..(Len(requests) - 1) |-> requests[i + 1] - requests[i]]

determine_scan_pattern_le(requests) ==
    IF Len(requests) < 3 THEN "Normal"
    ELSE LET intervals == Intervals(requests)
             n == Len(intervals)
             avg_interval == TruncDiv(SumSeq(intervals), n)
             variance == TruncDiv(SumSquares(intervals, avg_interval), n)
         IN  IF \A i \in 1..n : intervals[i] <= FAST_INTERVAL_MS THEN "Bruteforce"
             ELSE IF variance < VARIANCE_LIMIT THEN "Sequential"
             ELSE IF avg_interval < AVG_LIMIT THEN "Dictionary"
             ELSE "Random"

determine_scan_pattern(requests) ==
    IF Len(requests) < 3 THEN "Normal"
    ELSE LET intervals == Intervals(requests)
             n == Len(intervals)
             avg_interval == TruncDiv(SumSeq(intervals), n)
             variance == TruncDiv(SumSquares(intervals, avg_interval), n)
         IN  IF \A i \in 1..n : intervals[i] < FAST_INTERVAL_MS THEN "Bruteforce"
             ELSE IF variance < VARIANCE_LIMIT THEN "Sequential"
             ELSE IF avg_interval < AVG_LIMIT THEN "Dictionary"
             ELSE "Random"

\* a count that takes in the timestamp that is exactly 10 seconds old
count_recent_burst_requests_ge(requests, at) ==
    Cardinality({i \in 1..Len(requests) : requests[i] >= at - BURST_WINDOW_MS})

count_recent_burst_requests(requests, at) ==
    Cardinality({i \in 1..Len(requests) : requests[i] > at - BURST_WINDOW_MS})

\* timing_tracker.entry(client_ip).or_insert_with(Vec::new)
Entry(tracker, key) ==
    IF key \in DOMAIN tracker THEN tracker ELSE tracker @@ (key :> <<>>)

\* if requests.len() > 100 { requests.drain(0..requests.len() - 100); }
Drain(requests) ==
    IF Len(requests) > MAX_TRACKED
    THEN SubSeq(requests, Len(requests) - MAX_TRACKED + 1, Len(requests))
    ELSE requests

\* requests.retain(|&timestamp| timestamp > one_hour_ago)
\* a prune that also drops the timestamp of the access itself
RetainOlderThanAccess(requests, at) ==
    SelectSeq(requests, LAMBDA ts : ts > at - HOUR_MS /\ ts < at)

RetainAll(requests, at) == requests
Retain(requests, at) ==
    SelectSeq(requests, LAMBDA ts : ts > at - HOUR_MS)

request_interval_ms(requests) ==
    IF Len(requests) > 1
    THEN Some(requests[Len(requests)] - requests[Len(requests) - 1])
    ELSE None

(***************************************************************************)
(* Strings.  A String is the sequence of its characters.                   *)
(***************************************************************************)
UpperChars ==
    <<"A", "B", "C", "D", "E", "F", "G", "H", "I", "J", "K", "L", "M",
      "N", "O", "P", "Q", "R", "S", "T", "U", "V", "W", "X", "Y", "Z">>
LowerChars ==
    <<"a", "b", "c", "d", "e", "f", "g", "h", "i", "j", "k", "l", "m",
      "n", "o", "p", "q", "r", "s", "t", "u", "v", "w", "x", "y", "z">>

\* the lower-case letter of each upper-case letter, and the converse
LowerOf ==
    [c \in {UpperChars[i] : i \in 1..Len(UpperChars)} |->
        LowerChars[CHOOSE i \in 1..Len(UpperChars) : UpperChars[i] = c]]
UpperOf ==
    [c \in {LowerChars[i] : i \in 1..Len(LowerChars)} |->
        UpperChars[CHOOSE i \in 1..Len(LowerChars) : LowerChars[i] = c]]

char_to_lowercase(c) == IF c \in DOMAIN LowerOf THEN LowerOf[c] ELSE c

char_to_uppercase(c) == IF c \in DOMAIN UpperOf THEN UpperOf[c] ELSE c

\* str::to_lowercase, str::to_uppercase
same_case(s) == s
to_lowercase(s) ==
    IF s = <<>> THEN <<>> ELSE [i \in 1..Len(s) |-> char_to_lowercase(s[i])]
to_uppercase(s) ==
    IF s = <<>> THEN <<>> ELSE [i \in 1..Len(s) |-> char_to_uppercase(s[i])]

\* char::is_whitespace
is_whitespace(c) == c \in {" ", "\t", "\n", "\r"}

\* str::starts_with, str::contains
starts_with(s, p) ==
    Len(p) <= Len(s) /\ \A k \in 1..Len(p) : s[k] = p[k]
contains(s, p) ==
    \E i \in 0..(Len(s) - Len(p)) : \A k \in 1..Len(p) : s[i + k] = p[k]

Min(S) == CHOOSE x \in S : \A y \in S : x <= y
Max(S) == CHOOSE x \in S : \A y \in S : x >= y

\* str::find of a substring: the index of the first occurrence, from 0
find(s, p) ==
    LET at == {i \in 0..(Len(s) - Len(p)) : SubSeq(s, i + 1, i + Len(p)) = p}
    IN  IF at = {} THEN None ELSE Some(Min(at))

\* str::find of a character class
find_char(s, Is(_)) ==
    LET at == {i \in 0..(Len(s) - 1) : Is(s[i + 1])}
    IN  IF at = {} THEN None ELSE Some(Min(at))

\* &s[from..]
slice_from(s, from) == SubSeq(s, from + 1, Len(s))
\* &s[..to]
slice_to(s, to) == SubSeq(s, 1, to)

\* str::trim
trim(s) ==
    LET keep == {i \in 1..Len(s) : ~is_whitespace(s[i])}
    IN  IF keep = {} THEN <<>> ELSE SubSeq(s, Min(keep), Max(keep))

(***************************************************************************)
(* f32 arithmetic.  An f32 below 16 is held as the integer number of       *)
(* 2^-27 it is worth: every f32 in [2^-4, 16) is such a multiple, and so   *)
(* is every literal of the program.  An addition rounds the exact sum to   *)
(* 24 significant bits, ties to even.                                      *)
(***************************************************************************)
F32_ONE == 2^27

\* the decimal literals of the program as f32
F32_0_1 == 13421773
F32_0_2 == 26843546
F32_0_3 == 40265320
F32_0_4 == 53687092
F32_0_6 == 80530640
F32_0_7 == 93952408
F32_0_8 == 107374184
F32_0_9 == 120795952

\* the spacing of the f32 grid at v
RECURSIVE F32Ulp(_, _)
F32Ulp(v, q) ==
    IF v \div q < 2^24 THEN q ELSE F32Ulp(v, 2 * q)

F32Round(v) ==
    LET q == F32Ulp(v, 1)
        r == v % q
        down == v - r
    IN  IF 2 * r < q THEN down
        ELSE IF 2 * r > q THEN down + q
        ELSE IF (down \div q) % 2 = 0 THEN down ELSE down + q

F32Add(a, b) == F32Round(a + b)

\* f32::min
F32Min(a, b) == IF a < b THEN a ELSE b

(***************************************************************************)
(* Regular expressions (crate regex).  A pattern is the sequence of its    *)
(* items: a character, ".*" or "\\s+".  is_match searches the text for a   *)
(* match starting anywhere.  The characters NUL and backtick are written   *)
(* "NUL" and "BACKTICK".                                                   *)
(***************************************************************************)
\* MatchFrom: the items from the i-th on match at position j of the text.
\* ".*" takes any run of characters of a line, "\\s+" a run of white space.
RECURSIVE MatchFrom(_, _, _, _)
MatchFrom(pattern, i, text, j) ==
    IF i > Len(pattern) THEN TRUE
    ELSE IF pattern[i] = ".*"
    THEN \/ MatchFrom(pattern, i + 1, text, j)
         \/ /\ j <= Len(text)
            /\ text[j] # "\n"
            /\ MatchFrom(pattern, i, text, j + 1)
    ELSE IF pattern[i] = "\\s+"
    THEN /\ j <= Len(text)
         /\ is_whitespace(text[j])
         /\ \/ MatchFrom(pattern, i + 1, text, j + 1)
            \/ MatchFrom(pattern, i, text, j + 1)
    ELSE /\ j <= Len(text)
         /\ text[j] = pattern[i]
         /\ MatchFrom(pattern, i + 1, text, j + 1)

is_match(pattern, text) ==
    \E start \in 1..(Len(text) + 1) : MatchFrom(pattern, 1, text, start)

\* patterns.iter().any(|pattern| regex(pattern).is_match(text)), and the
\* same of str::contains
is_match_any(patterns, text) == \E pattern \in patterns : is_match(pattern, text)
contains_any(text, patterns) == \E pattern \in patterns : contains(text, pattern)

(***************************************************************************)
(* Requests.  A HeaderMap is a function from header names to values; the   *)
(* names of a HeaderMap are case-insensitive and are held in lower case.   *)
(***************************************************************************)
contains_key(headers, name) == name \in DOMAIN headers
get(headers, name) == IF name \in DOMAIN headers THEN Some(headers[name]) ELSE None

(***************************************************************************)
(* should_ignore_request and the router.                                   *)
(***************************************************************************)
ignore_paths ==
    { <<"/", "f", "a", "v", "i", "c", "o", "n", ".", "i", "c", "o">>,
      <<"/", "r", "o", "b", "o", "t", "s", ".", "t", "x", "t">>,
      <<"/", "s", "i", "t", "e", "m", "a", "p", ".", "x", "m", "l">>,
      <<"/", "a", "p", "p", "l", "e", "-", "t", "o", "u", "c", "h", "-", "i", "c", "o", "n", ".", "p", "n", "g">>,
      <<"/", "a", "p", "p", "l", "e", "-", "t", "o", "u", "c", "h", "-", "i", "c", "o", "n", "-", "p", "r", "e", "c", "o", "m", "p", "o", "s", "e", "d", ".", "p", "n", "g">>,
      <<"/", ".", "w", "e", "l", "l", "-", "k", "n", "o", "w", "n", "/", "s", "e", "c", "u", "r", "i", "t", "y", ".", "t", "x", "t">>,
      <<"/", "b", "r", "o", "w", "s", "e", "r", "c", "o", "n", "f", "i", "g", ".", "x", "m", "l">>,
      <<"/", "m", "a", "n", "i", "f", "e", "s", "t", ".", "j", "s", "o", "n">> }

OPTIONS == <<"O", "P", "T", "I", "O", "N", "S">>
SwJs == <<"/", "s", "w", ".", "j", "s">>
ServiceWorker == <<"/", "s", "e", "r", "v", "i", "c", "e", "-", "w", "o", "r", "k", "e", "r">>
FingerprintPath == <<"/", "f", "i", "n", "g", "e", "r", "p", "r", "i", "n", "t">>

should_ignore_request(path, headers) ==
    \/ path \in ignore_paths
    \/ /\ contains_key(headers, "access-control-request-method")
       /\ to_uppercase(headers["access-control-request-method"]) = OPTIONS
    \/ starts_with(path, SwJs)
    \/ starts_with(path, ServiceWorker)

\* create_http_router: the handler of a method and a path.  A route that
\* matches the path and has no handler for the method answers 405.
route(method, path) ==
    IF path = FingerprintPath
    THEN IF method = "POST" THEN "fingerprint_handler" ELSE "method_not_allowed"
    ELSE IF method \in {"GET", "HEAD"} THEN "honeypot_handler"
    ELSE IF method = "POST" THEN "honeypot_handler_post"
    ELSE "method_not_allowed"

(***************************************************************************)
(* is_attack_request.                                                      *)
(***************************************************************************)
suspicious_paths ==
    { <<"a", "d", "m", "i", "n">>,
      <<"l", "o", "g", "i", "n">>,
      <<"p", "h", "p", "m", "y", "a", "d", "m", "i", "n">>,
      <<"w", "p", "-", "a", "d", "m", "i", "n">>,
      <<"w", "p", "-", "l", "o", "g", "i", "n">>,
      <<"a", "d", "m", "i", "n", "i", "s", "t", "r", "a", "t", "o", "r">>,
      <<"c", "p", "a", "n", "e", "l">>,
      <<"w", "e", "b", "m", "a", "i", "l">>,
      <<"r", "o", "u", "n", "d", "c", "u", "b", "e">>,
      <<"s", "q", "u", "i", "r", "r", "e", "l", "m", "a", "i", "l">>,
      <<"c", "o", "n", "f", "i", "g">>,
      <<".", "e", "n", "v">>,
      <<".", "g", "i", "t">>,
      <<"b", "a", "c", "k", "u", "p">>,
      <<"d", "a", "t", "a", "b", "a", "s", "e">>,
      <<"s", "q", "l">>,
      <<"d", "u", "m", "p">>,
      <<"c", "o", "n", "f", "i", "g", ".", "p", "h", "p">>,
      <<"w", "p", "-", "c", "o", "n", "f", "i", "g">>,
      <<"d", "a", "t", "a", "b", "a", "s", "e", ".", "y", "m", "l">>,
      <<"s", "e", "c", "r", "e", "t", "s">>,
      <<"s", "h", "e", "l", "l">>,
      <<"w", "e", "b", "s", "h", "e", "l", "l">>,
      <<"c", "m", "d">>,
      <<"p", "h", "p", "i", "n", "f", "o">>,
      <<"i", "n", "f", "o", ".", "p", "h", "p">>,
      <<"t", "e", "s", "t", ".", "p", "h", "p">>,
      <<"e", "x", "p", "l", "o", "i", "t">>,
      <<"b", "a", "c", "k", "d", "o", "o", "r">>,
      <<"u", "p", "l", "o", "a", "d">>,
      <<"u", "p", "l", "o", "a", "d", "e", "r">>,
      <<"c", "9", "9">>,
      <<"r", "5", "7">>,
      <<".", ".", "/">>,
      <<".", ".", "\\">>,
      <<"e", "t", "c", "/", "p", "a", "s", "s", "w", "d">>,
      <<"w", "i", "n", "d", "o", "w", "s", "/", "s", "y", "s", "t", "e", "m", "3", "2">>,
      <<"x", "m", "l", "r", "p", "c">>,
      <<"w", "p", "-", "j", "s", "o", "n">>,
      <<"a", "p", "i", "/">>,
      <<"r", "e", "s", "t", "/">>,
      <<"g", "r", "a", "p", "h", "q", "l">>,
      <<"/", ".", "w", "e", "l", "l", "-", "k", "n", "o", "w", "n", "/">>,
      <<"/", "r", "o", "b", "o", "t", "s", ".", "t", "x", "t">>,
      <<"/", "s", "i", "t", "e", "m", "a", "p", ".", "x", "m", "l">> }

scanner_patterns ==
    { <<"n", "m", "a", "p">>,
      <<"m", "a", "s", "s", "c", "a", "n">>,
      <<"z", "m", "a", "p">>,
      <<"g", "o", "b", "u", "s", "t", "e", "r">>,
      <<"d", "i", "r", "b">>,
      <<"d", "i", "r", "b", "u", "s", "t", "e", "r">>,
      <<"n", "i", "k", "t", "o">>,
      <<"s", "q", "l", "m", "a", "p">>,
      <<"b", "u", "r", "p">>,
      <<"o", "w", "a", "s", "p", " ", "z", "a", "p">>,
      <<"a", "c", "u", "n", "e", "t", "i", "x">>,
      <<"n", "e", "s", "s", "u", "s">>,
      <<"o", "p", "e", "n", "v", "a", "s">>,
      <<"w", "3", "a", "f">>,
      <<"s", "k", "i", "p", "f", "i", "s", "h">>,
      <<"a", "r", "a", "c", "h", "n", "i">>,
      <<"p", "y", "t", "h", "o", "n", "-", "r", "e", "q", "u", "e", "s", "t", "s">>,
      <<"c", "u", "r", "l">>,
      <<"w", "g", "e", "t">>,
      <<"h", "t", "t", "p", "i", "e">>,
      <<"p", "o", "s", "t", "m", "a", "n">>,
      <<"i", "n", "s", "o", "m", "n", "i", "a">>,
      <<"p", "a", "w">>,
      <<"r", "e", "s", "t", "c", "l", "i", "e", "n", "t">>,
      <<"b", "o", "t">>,
      <<"c", "r", "a", "w", "l", "e", "r">>,
      <<"s", "p", "i", "d", "e", "r">>,
      <<"s", "c", "r", "a", "p", "e", "r">>,
      <<"p", "a", "r", "s", "e", "r">>,
      <<"s", "c", "a", "n", "n", "e", "r">>,
      <<"m", "o", "n", "i", "t", "o", "r">>,
      <<"c", "h", "e", "c", "k", "e", "r">>,
      <<"v", "a", "l", "i", "d", "a", "t", "o", "r">>,
      <<"m", "e", "t", "a", "s", "p", "l", "o", "i", "t">>,
      <<"c", "o", "b", "a", "l", "t", " ", "s", "t", "r", "i", "k", "e">>,
      <<"e", "m", "p", "i", "r", "e">>,
      <<"c", "o", "v", "e", "n", "a", "n", "t">>,
      <<"s", "l", "i", "v", "e", "r">>,
      <<"m", "e", "t", "e", "r", "p", "r", "e", "t", "e", "r">>,
      <<"e", "x", "p", "l", "o", "i", "t">>,
      <<"p", "a", "y", "l", "o", "a", "d">>,
      <<"s", "h", "e", "l", "l", "c", "o", "d", "e">>,
      <<"r", "e", "v", "e", "r", "s", "e", "_", "s", "h", "e", "l", "l">> }

body_sql_patterns ==
    { <<"u", "n", "i", "o", "n", " ", "s", "e", "l", "e", "c", "t">>,
      <<"o", "r", " ", "1", "=", "1">>,
      <<"a", "n", "d", " ", "1", "=", "1">>,
      <<"'", " ", "o", "r", " ", "'">>,
      <<"\"", " ", "o", "r", " ", "\"">>,
      <<"d", "r", "o", "p", " ", "t", "a", "b", "l", "e">>,
      <<"i", "n", "s", "e", "r", "t", " ", "i", "n", "t", "o">>,
      <<"d", "e", "l", "e", "t", "e", " ", "f", "r", "o", "m">>,
      <<"u", "p", "d", "a", "t", "e", " ", "s", "e", "t">>,
      <<"e", "x", "e", "c", "(">>,
      <<"s", "p", "_">>,
      <<"x", "p", "_">>,
      <<"@", "@", "v", "e", "r", "s", "i", "o", "n">>,
      <<"i", "n", "f", "o", "r", "m", "a", "t", "i", "o", "n", "_", "s", "c", "h", "e", "m", "a">>,
      <<"l", "o", "a", "d", "_", "f", "i", "l", "e", "(">>,
      <<"i", "n", "t", "o", " ", "o", "u", "t", "f", "i", "l", "e">>,
      <<"i", "n", "t", "o", " ", "d", "u", "m", "p", "f", "i", "l", "e">> }

body_xss_patterns ==
    { <<"<", "s", "c", "r", "i", "p", "t">>,
      <<"j", "a", "v", "a", "s", "c", "r", "i", "p", "t", ":">>,
      <<"o", "n", "l", "o", "a", "d", "=">>,
      <<"o", "n", "e", "r", "r", "o", "r", "=">>,
      <<"o", "n", "c", "l", "i", "c", "k", "=">>,
      <<"a", "l", "e", "r", "t", "(">>,
      <<"c", "o", "n", "f", "i", "r", "m", "(">>,
      <<"p", "r", "o", "m", "p", "t", "(">>,
      <<"d", "o", "c", "u", "m", "e", "n", "t", ".", "c", "o", "o", "k", "i", "e">>,
      <<"e", "v", "a", "l", "(">>,
      <<"s", "e", "t", "T", "i", "m", "e", "o", "u", "t", "(">>,
      <<"s", "e", "t", "I", "n", "t", "e", "r", "v", "a", "l", "(">> }

body_cmd_patterns ==
    { <<"s", "y", "s", "t", "e", "m", "(">>,
      <<"e", "x", "e", "c", "(">>,
      <<"s", "h", "e", "l", "l", "_", "e", "x", "e", "c", "(">>,
      <<"p", "a", "s", "s", "t", "h", "r", "u", "(">>,
      <<"p", "o", "p", "e", "n", "(">>,
      <<"p", "r", "o", "c", "_", "o", "p", "e", "n", "(">>,
      <<"BACKTICK">>,
      <<"$", "(">>,
      <<"$", "{">>,
      <<"&", "&">>,
      <<"|", "|">>,
      <<";">>,
      <<"/", "b", "i", "n", "/">>,
      <<"/", "u", "s", "r", "/", "b", "i", "n", "/">>,
      <<"c", "m", "d", ".", "e", "x", "e">>,
      <<"p", "o", "w", "e", "r", "s", "h", "e", "l", "l">> }

body_ldap_patterns ==
    { <<")", "(", "c", "n", "=">>,
      <<")", "(", "u", "i", "d", "=">>,
      <<")", "(", "m", "a", "i", "l", "=">>,
      <<"*", ")", "(">>,
      <<"|", "(", "c", "n", "=">>,
      <<"|", "(", "u", "i", "d", "=">>,
      <<"|", "(", "m", "a", "i", "l", "=">> }

attack_patterns ==
    { <<".", ".", "/">>,
      <<".", ".", "\\">>,
      <<"%", "2", "e", "%", "2", "e", "%", "2", "f">>,
      <<"%", "2", "e", "%", "2", "e", "%", "5", "c">>,
      <<"%", "0", "0">>,
      <<"NUL">>,
      <<"%", "2", "7">>,
      <<"%", "2", "2">>,
      <<"%", "3", "c">>,
      <<"%", "3", "e">>,
      <<"%", "2", "8">>,
      <<"%", "2", "9">>,
      <<"u", "n", "i", "o", "n", "+", "s", "e", "l", "e", "c", "t">>,
      <<"c", "o", "n", "c", "a", "t", "(">>,
      <<"c", "h", "a", "r", "(">>,
      <<"{", "{">>,
      <<"}", "}">>,
      <<"{", "%">>,
      <<"%", "}">>,
      <<"<", "!", "-", "-", "#">>,
      <<"#", "e", "x", "e", "c">>,
      <<"#", "i", "n", "c", "l", "u", "d", "e">> }

automation_indicators ==
    {"x-forwarded-for", "x-real-ip", "x-originating-ip", "x-scanner", "x-tool",
     "x-automated", "x-requestor", "x-source"}

expected_browser_headers == {"accept", "accept-language", "accept-encoding"}

Slash == <<"/">>

\* body_content.chars().all(|c| c.is_alphanumeric() || c == '+' || c == '/' || c == '=')
is_base64_char(c) ==
    \/ \E i \in 1..26 : UpperChars[i] = c \/ LowerChars[i] = c
    \/ c \in {"0", "1", "2", "3", "4", "5", "6", "7", "8", "9", "+", "/", "="}

\* check 2, of a User-Agent that is there
suspicious_user_agent(ua_str) ==
    \/ contains_any(to_lowercase(ua_str), scanner_patterns)
    \/ Len(ua_str) < 10
    \/ ~contains(ua_str, Slash)

\* check 5, of a body that is there
suspicious_body(body_content) ==
    \/ contains_any(to_lowercase(body_content),
                    body_sql_patterns \cup body_xss_patterns
                        \cup body_cmd_patterns \cup body_ldap_patterns)
    \/ /\ Len(body_content) > 100
       /\ \A i \in 1..Len(body_content) : is_base64_char(body_content[i])

\* the checks 1 to 6 of the function: one of them returns true
is_attack_request_strict(path, headers, body) ==
    \/ contains_any(to_lowercase(path), suspicious_paths)
    \/ IF contains_key(headers, "user-agent")
       THEN suspicious_user_agent(headers["user-agent"])
       ELSE TRUE
    \/ \E header_name \in automation_indicators : contains_key(headers, header_name)
    \/ Cardinality({h \in expected_browser_headers : ~contains_key(headers, h)}) >= 2
    \/ body # None /\ suspicious_body(body[1])
    \/ is_match_any(attack_patterns, to_lowercase(path))

\* every check returns true when it hits, and so does the last line
is_attack_request(path, headers, body) ==
    \/ is_attack_request_strict(path, headers, body)
    \/ TRUE

(***************************************************************************)
(* The scanner signatures and detect_scanner_tool.                         *)
(***************************************************************************)
SCANNER_SIGNATURES ==
    <<[name |-> "Nmap",
       user_agent_patterns |->
           <<<<"n", "m", "a", "p">>,
             <<".*", "n", "m", "a", "p", ".*">>>>,
       header_patterns |-> <<<<"user-agent", <<".*", "N", "S", "E", ".*">>>>>>,
       path_patterns |->
           <<>>,
       confidence_threshold |-> F32_0_8],
      [name |-> "Masscan",
       user_agent_patterns |->
           <<<<"m", "a", "s", "s", "c", "a", "n">>,
             <<".*", "m", "a", "s", "s", "c", "a", "n", ".*">>>>,
       header_patterns |-> <<>>,
       path_patterns |->
           <<>>,
       confidence_threshold |-> F32_0_9],
      [name |-> "Gobuster",
       user_agent_patterns |->
           <<<<"g", "o", "b", "u", "s", "t", "e", "r">>,
             <<".*", "g", "o", "b", "u", "s", "t", "e", "r", ".*">>>>,
       header_patterns |-> <<>>,
       path_patterns |->
           <<<<"/", "a", "d", "m", "i", "n", ".*">>,
             <<"/", "l", "o", "g", "i", "n", ".*">>,
             <<"/", "c", "o", "n", "f", "i", "g", ".*">>>>,
       confidence_threshold |-> F32_0_7],
      [name |-> "Nikto",
       user_agent_patterns |->
           <<<<".*", "N", "i", "k", "t", "o", ".*">>,
             <<".*", "n", "i", "k", "t", "o", ".*">>>>,
       header_patterns |-> <<>>,
       path_patterns |->
           <<<<"/", "c", "g", "i", "-", "b", "i", "n", "/", ".*">>,
             <<"/", "s", "c", "r", "i", "p", "t", "s", "/", ".*">>>>,
       confidence_threshold |-> F32_0_8],
      [name |-> "SQLMap",
       user_agent_patterns |->
           <<<<".*", "s", "q", "l", "m", "a", "p", ".*">>>>,
       header_patterns |-> <<>>,
       path_patterns |->
           <<>>,
       confidence_threshold |-> F32_0_9],
      [name |-> "Burp Suite",
       user_agent_patterns |->
           <<<<".*", "B", "u", "r", "p", ".*">>,
             <<".*", "b", "u", "r", "p", ".*">>>>,
       header_patterns |-> <<>>,
       path_patterns |->
           <<>>,
       confidence_threshold |-> F32_0_8],
      [name |-> "Generic Scanner/Bot",
       user_agent_patterns |->
           <<<<".*", "b", "o", "t", ".*">>,
             <<".*", "c", "r", "a", "w", "l", "e", "r", ".*">>,
             <<".*", "s", "c", "a", "n", "n", "e", "r", ".*">>,
             <<".*", "s", "p", "i", "d", "e", "r", ".*">>,
             <<"p", "y", "t", "h", "o", "n", "-", "r", "e", "q", "u", "e", "s", "t", "s", ".*">>,
             <<"c", "u", "r", "l", ".*">>,
             <<"w", "g", "e", "t", ".*">>>>,
       header_patterns |-> <<>>,
       path_patterns |->
           <<>>,
       confidence_threshold |-> F32_0_6]>>

suspicious_headers ==
    <<"x-forwarded-for", "x-real-ip", "x-originating-ip", "x-scanner", "x-tool",
      "x-automated">>

browser_headers == {"accept", "accept-language", "accept-encoding", "cache-control"}

sql_patterns ==
    { <<"u", "n", "i", "o", "n", "\\s+", "s", "e", "l", "e", "c", "t">>,
      <<"o", "r", "\\s+", "1", "=", "1">>,
      <<"a", "n", "d", "\\s+", "1", "=", "1">>,
      <<"d", "r", "o", "p", "\\s+", "t", "a", "b", "l", "e">>,
      <<"i", "n", "s", "e", "r", "t", "\\s+", "i", "n", "t", "o">>,
      <<"d", "e", "l", "e", "t", "e", "\\s+", "f", "r", "o", "m">>,
      <<"u", "p", "d", "a", "t", "e", "\\s+", "s", "e", "t">> }

\* (the patterns are searched as plain text, the backslash included)
xss_patterns ==
    { <<"<", "s", "c", "r", "i", "p", "t">>,
      <<"j", "a", "v", "a", "s", "c", "r", "i", "p", "t", ":">>,
      <<"o", "n", "l", "o", "a", "d", "=">>,
      <<"o", "n", "e", "r", "r", "o", "r", "=">>,
      <<"a", "l", "e", "r", "t", "\\", "(">> }

\* for header in suspicious_headers { if headers.contains_key(header) { score += 0.1 } }
RECURSIVE AddPresent(_, _, _)
AddPresent(score, headers, i) ==
    IF i > Len(suspicious_headers) THEN score
    ELSE AddPresent(IF contains_key(headers, suspicious_headers[i])
                    THEN F32Add(score, F32_0_1) ELSE score,
                    headers, i + 1)

\* the score after the header checks
header_indicators(headers) ==
    LET score == AddPresent(0, headers, 1)
        missing_headers == Cardinality({h \in browser_headers : ~contains_key(headers, h)})
    IN  IF missing_headers > 2 THEN F32Add(score, F32_0_2) ELSE score

\* the score after the check of the path for XSS patterns
xss_indicator(score, request_path) ==
    IF contains_any(to_lowercase(request_path), xss_patterns)
    THEN F32Add(score, F32_0_2)
    ELSE score

check_additional_scanner_indicators(headers, request_path, request_body) ==
    LET score == header_indicators(headers)
        with_sql ==
            IF /\ request_body # None
               /\ is_match_any(sql_patterns, to_lowercase(request_body[1]))
            THEN F32Add(score, F32_0_3)
            ELSE score
    IN  xss_indicator(with_sql, request_path)

\* for pattern in patterns { if regex.is_match(text) { confidence += weight } }
RECURSIVE AddMatches(_, _, _, _, _)
AddMatches(confidence, patterns, text, weight, i) ==
    IF i > Len(patterns) THEN confidence
    ELSE AddMatches(IF is_match(patterns[i], text)
                    THEN F32Add(confidence, weight) ELSE confidence,
                    patterns, text, weight, i + 1)

RECURSIVE AddHeaderMatches(_, _, _, _)
AddHeaderMatches(confidence, header_patterns, headers, i) ==
    IF i > Len(header_patterns) THEN confidence
    ELSE LET header_name == header_patterns[i][1]
             pattern == header_patterns[i][2]
         IN  AddHeaderMatches(
                 IF /\ contains_key(headers, header_name)
                    /\ is_match(pattern, to_lowercase(headers[header_name]))
                 THEN F32Add(confidence, F32_0_3) ELSE confidence,
                 header_patterns, headers, i + 1)

\* The texts a request is matched by: the user agent and the path in lower
\* case, and the score of check_additional_scanner_indicators, which are
\* the same in every turn of the loop.
Matched(headers, request_path, request_body) ==
    [headers |-> headers,
     ua_lower |-> IF contains_key(headers, "user-agent")
                  THEN Some(to_lowercase(headers["user-agent"])) ELSE None,
     path_lower |-> to_lowercase(request_path),
     additional |-> check_additional_scanner_indicators(headers, request_path,
                                                        request_body)]

\* the confidence a signature accumulates in one turn of the loop
signature_confidence(signature, m) ==
    LET ua == IF m.ua_lower # None
              THEN AddMatches(0, signature.user_agent_patterns, m.ua_lower[1],
                              F32_0_4, 1)
              ELSE 0
        hd == AddHeaderMatches(ua, signature.header_patterns, m.headers, 1)
        pt == AddMatches(hd, signature.path_patterns, m.path_lower, F32_0_2, 1)
    IN  F32Add(pt, m.additional)

RECURSIVE BestMatch(_, _, _, _)

\* a turn that accepts a score equal to the threshold
TurnAtThreshold(i, best_match, highest_confidence, m, confidence) ==
    IF confidence >= SCANNER_SIGNATURES[i].confidence_threshold
       /\ confidence > highest_confidence
    THEN BestMatch(i + 1, Some(SCANNER_SIGNATURES[i].name), confidence, m)
    ELSE BestMatch(i + 1, best_match, highest_confidence, m)

\* a turn that keeps the latest signature among equals
TurnLatest(i, best_match, highest_confidence, m, confidence) ==
    IF confidence > SCANNER_SIGNATURES[i].confidence_threshold
       /\ confidence >= highest_confidence
    THEN BestMatch(i + 1, Some(SCANNER_SIGNATURES[i].name), confidence, m)
    ELSE BestMatch(i + 1, best_match, highest_confidence, m)

\* if confidence > signature.confidence_threshold && confidence > highest_confidence
Turn(i, best_match, highest_confidence, m, confidence) ==
    IF confidence > SCANNER_SIGNATURES[i].confidence_threshold
       /\ confidence > highest_confidence
    THEN BestMatch(i + 1, Some(SCANNER_SIGNATURES[i].name), confidence, m)
    ELSE BestMatch(i + 1, best_match, highest_confidence, m)

\* for signature in SCANNER_SIGNATURES.iter() { .. }
BestMatch(i, best_match, highest_confidence, m) ==
    IF i > Len(SCANNER_SIGNATURES)
    THEN [best_match |-> best_match, highest_confidence |-> highest_confidence]
    ELSE Turn(i, best_match, highest_confidence, m,
              signature_confidence(SCANNER_SIGNATURES[i], m))

\* a return without the clamp: (best_match, highest_confidence)
DetectedUnclamped(found) ==
    [scanner_type |-> found.best_match,
     tool_confidence |-> found.highest_confidence]

\* (best_match, highest_confidence.min(1.0))
Detected(found) ==
    [scanner_type |-> found.best_match,
     tool_confidence |-> F32Min(found.highest_confidence, F32_ONE)]

detect_scanner_tool(headers, request_path, request_body) ==
    Detected(BestMatch(1, None, 0, Matched(headers, request_path, request_body)))

(***************************************************************************)
(* analyze_browser_fingerprint.                                            *)
(***************************************************************************)
non_browser_indicators ==
    { <<"c", "u", "r", "l">>,
      <<"w", "g", "e", "t">>,
      <<"p", "y", "t", "h", "o", "n">>,
      <<"r", "e", "q", "u", "e", "s", "t", "s">>,
      <<"b", "o", "t">>,
      <<"c", "r", "a", "w", "l", "e", "r">>,
      <<"s", "c", "a", "n", "n", "e", "r">>,
      <<"n", "m", "a", "p">>,
      <<"m", "a", "s", "s", "c", "a", "n">>,
      <<"g", "o", "b", "u", "s", "t", "e", "r">>,
      <<"n", "i", "k", "t", "o">>,
      <<"s", "q", "l", "m", "a", "p">>,
      <<"b", "u", "r", "p">> }

browser_patterns ==
    { <<"m", "o", "z", "i", "l", "l", "a">>,
      <<"c", "h", "r", "o", "m", "e">>,
      <<"s", "a", "f", "a", "r", "i">>,
      <<"f", "i", "r", "e", "f", "o", "x">>,
      <<"e", "d", "g", "e">>,
      <<"o", "p", "e", "r", "a">> }

Gzip == <<"g", "z", "i", "p">>

\* Option<&str>::unwrap_or("")
header_or_empty(headers, name) == unwrap_or(get(headers, name), <<>>)

\* a classification by the score alone, without the list of non-browser
\* indicators
browser_authenticity_by_score(user_agent, accept, accept_language, accept_encoding, headers) ==
    LET ua_lower == to_lowercase(user_agent)
        score == (IF \E pattern \in browser_patterns : contains(ua_lower, pattern)
                  THEN 2 ELSE 0)
                 + (IF accept # <<>> THEN 1 ELSE 0)
                 + (IF accept_language # <<>> THEN 1 ELSE 0)
                 + (IF accept_encoding # <<>> /\ contains(accept_encoding, Gzip)
                    THEN 1 ELSE 0)
                 + (IF \/ contains_key(headers, "sec-fetch-dest")
                       \/ contains_key(headers, "sec-fetch-mode")
                       \/ contains_key(headers, "sec-fetch-site")
                    THEN 2 ELSE 0)
    IN  score >= 4

analyze_browser_authenticity(user_agent, accept, accept_language, accept_encoding, headers) ==
    LET ua_lower == to_lowercase(user_agent)
        has_browser_pattern == \E pattern \in browser_patterns : contains(ua_lower, pattern)
        has_accept == accept # <<>>
        has_accept_language == accept_language # <<>>
        has_accept_encoding == accept_encoding # <<>> /\ contains(accept_encoding, Gzip)
        has_sec_fetch == \/ contains_key(headers, "sec-fetch-dest")
                         \/ contains_key(headers, "sec-fetch-mode")
                         \/ contains_key(headers, "sec-fetch-site")
        score == (IF has_browser_pattern THEN 2 ELSE 0)
                 + (IF has_accept THEN 1 ELSE 0)
                 + (IF has_accept_language THEN 1 ELSE 0)
                 + (IF has_accept_encoding THEN 1 ELSE 0)
                 + (IF has_sec_fetch THEN 2 ELSE 0)
    IN  IF \E indicator \in non_browser_indicators : contains(ua_lower, indicator)
        THEN FALSE
        ELSE score >= 4

\* (the engine, version, os and canvas hash of the fingerprint are not modelled)
analyze_browser_fingerprint(headers) ==
    LET is_real_browser ==
            analyze_browser_authenticity(header_or_empty(headers, "user-agent"),
                                         header_or_empty(headers, "accept"),
                                         header_or_empty(headers, "accept-language"),
                                         header_or_empty(headers, "accept-encoding"),
                                         headers)
    IN  [is_real_browser |-> is_real_browser, javascript_enabled |-> is_real_browser]

(***************************************************************************)
(* calculate_threat_level                                                  *)
(***************************************************************************)
ScanPatterns == {"Sequential", "Random", "Dictionary", "Bruteforce", "Normal"}

pattern_bonus(scan_pattern) ==
    CASE scan_pattern = "Bruteforce" -> 3 * F32_ONE
      [] scan_pattern = "Sequential" -> 2 * F32_ONE
      [] scan_pattern = "Dictionary" -> (5 * F32_ONE) \div 2
      [] scan_pattern = "Random" -> F32_ONE
      [] scan_pattern = "Normal" -> 0

\* browser_fingerprint is None or Some(BrowserFingerprint)
threat_score(scanner_confidence, timing_patterns, browser_fingerprint) ==
    LET s1 == F32Add(0, 4 * scanner_confidence)
        s2 == F32Add(s1, pattern_bonus(timing_patterns.scan_pattern))
        s3 == IF timing_patterns.burst_requests > 50 THEN F32Add(s2, 2 * F32_ONE)
              ELSE IF timing_patterns.burst_requests > 10 THEN F32Add(s2, F32_ONE)
              ELSE s2
        s4 == IF browser_fingerprint # None /\ ~browser_fingerprint[1].is_real_browser
              THEN F32Add(s3, 2 * F32_ONE)
              ELSE s3
    IN  s4

calculate_threat_level_gt(scanner_confidence, timing_patterns, browser_fingerprint) ==
    LET threat_score_ == threat_score(scanner_confidence, timing_patterns, browser_fingerprint)
    IN  IF threat_score_ > 7 * F32_ONE THEN "Critical"
        ELSE IF threat_score_ > 5 * F32_ONE THEN "High"
        ELSE IF threat_score_ > 3 * F32_ONE THEN "Medium"
        ELSE "Low"

calculate_threat_level(scanner_confidence, timing_patterns, browser_fingerprint) ==
    LET threat_score_ == threat_score(scanner_confidence, timing_patterns, browser_fingerprint)
    IN  IF threat_score_ >= 7 * F32_ONE THEN "Critical"
        ELSE IF threat_score_ >= 5 * F32_ONE THEN "High"
        ELSE IF threat_score_ >= 3 * F32_ONE THEN "Medium"
        ELSE "Low"


(***************************************************************************)
(* Tasks.                                                                  *)
(***************************************************************************)
NoReq == [kind |-> "none"]
NoLoc == [at |-> 0, request_interval_ms |-> None, burst_requests |-> 0,
          scan_pattern |-> "Normal", geo_location |-> None,
          request_body |-> None, is_suspicious_request |-> None,
          additional_indicators |-> None, fingerprint_result |-> None,
          interaction_data |-> None, disinformation_content |-> "",
          long_pause |-> FALSE]
NoLast == [set |-> FALSE, kind |-> "none"]

\* the gaps between two readings of the clock that the environment offers
Gaps == {20, 100, 2000, BURST_WINDOW_MS, HOUR_MS}

GapsOf(w) ==
    IF w = "burst" THEN {20, HOUR_MS}
    ELSE IF w = "http" THEN {20}
    ELSE IF w = "poison" THEN {20, 2000}
    ELSE Gaps

AddrsOf(w) ==
    IF w = "burst" THEN {SockAddr(AttackerA, 40001)}
    ELSE {SockAddr(ip, p) : ip \in TimingIps, p \in TimingPorts}

CallsOf(w) ==
    IF w = "burst" THEN MaxBurst
    ELSE IF w = "poison" THEN MaxCalls + 1
    ELSE MaxCalls

\* perform_advanced_fingerprinting calls analyze_timing_patterns(client_ip)
\* for the request of a source address.
TimingRequest(t, addr) ==
    /\ workload \in {"mixed", "burst", "poison"}
    /\ pc[t] = "idle"
    /\ calls < CallsOf(workload)
    /\ calls' = calls + 1
    /\ req' = [req EXCEPT ![t] = [kind |-> "timing", addr |-> addr,
                                  client_ip |-> ClientIpKey(addr)]]
    /\ loc' = [loc EXCEPT ![t] = NoLoc]
    /\ pc' = [pc EXCEPT ![t] = "lock"]
    /\ UNCHANGED <<now, timing_tracker, mutex, last, seen, workload, net>>

\* TIMING_TRACKER.lock().unwrap(): waits until the mutex is free
LockAnyway(t) ==
    /\ pc[t] = "lock"
    /\ mutex' = t
    /\ pc' = [pc EXCEPT ![t] = "push"]
    /\ UNCHANGED <<now, timing_tracker, req, loc, last, seen, workload, calls, net>>

Lock(t) ==
    /\ pc[t] = "lock"
    /\ mutex = "free"
    /\ mutex' = t
    /\ pc' = [pc EXCEPT ![t] = "push"]
    /\ UNCHANGED <<now, timing_tracker, req, loc, last, seen, workload, calls, net>>

\* let now = Utc::now(); entry; push; drain
PushTrim(t, gap) ==
    /\ pc[t] = "push"
    /\ now + gap <= MaxTime
    /\ now' = now + gap
    /\ LET key == req[t].client_ip
           tr == Entry(timing_tracker, key)
       IN  /\ timing_tracker' = [tr EXCEPT ![key] = Drain(Append(tr[key], now'))]
           /\ LET ip == req[t].addr.ip.o
                  sn == Entry(seen, ip)
              IN  seen' = [sn EXCEPT ![ip] =
                              Append(sn[ip], [at |-> now', port |-> req[t].addr.port])]
    /\ loc' = [loc EXCEPT ![t].at = now']
    /\ net' = IF req[t].kind = "http"
              THEN [net EXCEPT ![t] = Append(@, [kind |-> "tracker_update"])]
              ELSE net
    /\ pc' = [pc EXCEPT ![t] = "stats"]
    /\ UNCHANGED <<mutex, req, last, workload, calls>>

\* determine_scan_pattern reaches (interval - avg_interval).pow(2) and the sum
\* of the squares with an interval so long that they do not fit an i64: the
\* sequence has three entries or more, and the request came after a long
\* pause (50 days or more; the last interval is then no less than 100 ms,
\* and the mean no less than 1000 ms)
SquaresOverflow(t) ==
    /\ loc[t].long_pause
    /\ Len(timing_tracker[req[t].client_ip]) >= 3

\* request_interval_ms, burst_requests, scan_pattern
Stats(t) ==
    /\ pc[t] = "stats"
    /\ ~SquaresOverflow(t)
    /\ LET requests == timing_tracker[req[t].client_ip]
       IN  loc' = [loc EXCEPT
                   ![t].request_interval_ms = request_interval_ms(requests),
                   ![t].burst_requests = count_recent_burst_requests(requests, loc[t].at),
                   ![t].scan_pattern = determine_scan_pattern(requests)]
    /\ pc' = [pc EXCEPT ![t] = "prune"]
    /\ UNCHANGED <<now, timing_tracker, mutex, req, last, seen, workload, calls, net>>

\* retain; return TimingPattern { .. }; the guard is dropped.  The call
\* returns to perform_advanced_fingerprinting when a request is being served.
PruneReturn(t) ==
    /\ pc[t] = "prune"
    /\ LET key == req[t].client_ip
       IN  timing_tracker' = [timing_tracker EXCEPT
                              ![key] = Retain(timing_tracker[key], loc[t].at)]
    /\ mutex' = "free"
    /\ IF req[t].kind = "http"
       THEN /\ pc' = [pc EXCEPT ![t] = "fingerprinting"]
            /\ UNCHANGED <<last, req, loc>>
       ELSE /\ last' = [set |-> TRUE, kind |-> "timing",
                        addr |-> req[t].addr, client_ip |-> req[t].client_ip,
                        at |-> loc[t].at,
                        request_interval_ms |-> loc[t].request_interval_ms,
                        burst_requests |-> loc[t].burst_requests,
                        scan_pattern |-> loc[t].scan_pattern]
            /\ pc' = [pc EXCEPT ![t] = "idle"]
            /\ req' = [req EXCEPT ![t] = NoReq]
            /\ loc' = [loc EXCEPT ![t] = NoLoc]
    /\ UNCHANGED <<now, seen, workload, calls, net>>

InitCommon ==
    /\ now = 0
    /\ timing_tracker = <<>>
    /\ seen = <<>>
    /\ mutex = "free"
    /\ pc = [t \in Tasks |-> "idle"]
    /\ req = [t \in Tasks |-> NoReq]
    /\ loc = [t \in Tasks |-> NoLoc]
    /\ last = NoLast
    /\ calls = 0
    /\ net = [t \in Tasks |-> <<>>]

InitTiming ==
    /\ InitCommon
    /\ workload \in {"mixed", "burst"}

NextTiming ==
    \/ \E t \in Tasks : \E addr \in AddrsOf(workload) : TimingRequest(t, addr)
    \/ \E t \in Tasks : Lock(t)
    \/ \E t \in Tasks : \E gap \in GapsOf(workload) : PushTrim(t, gap)
    \/ \E t \in Tasks : Stats(t)
    \/ \E t \in Tasks : PruneReturn(t)

SpecTiming == InitTiming /\ [][NextTiming]_vars

(***************************************************************************)
(* Properties of the Timing Tracker.                                       *)
(***************************************************************************)
InCritical(t) == pc[t] \in {"push", "stats", "prune"}

\* the timestamps of a history
Times(h) == [i \in 1..Len(h) |-> h[i].at]

LastN(s, n) ==
    IF Len(s) > n THEN SubSeq(s, Len(s) - n + 1, Len(s)) ELSE s

\* what is stored for a source after its latest request: of its last 100
\* timestamps, those less than an hour before the latest one
Window(ts) ==
    IF ts = <<>> THEN <<>>
    ELSE SelectSeq(LastN(ts, 100), LAMBDA x : ts[Len(ts)] - x < 3600000)

\* what the statistics of a source's latest request are computed from
Analysed(ts) ==
    LastN(Append(Window(SubSeq(ts, 1, Len(ts) - 1)), ts[Len(ts)]), 100)

RECURSIVE RefSquares(_, _, _)
RefSquares(s, mean, i) ==
    IF i >= Len(s) THEN 0
    ELSE (s[i + 1] - s[i] - mean) * (s[i + 1] - s[i] - mean) + RefSquares(s, mean, i + 1)

\* the reference decision on a sequence of timestamps
RefScanPattern(s) ==
    LET n == Len(s) - 1
        total == s[Len(s)] - s[1]
        mean == total \div n
        lowVariance ==
            /\ \A i \in 1..n : /\ s[i + 1] - s[i] - mean < 1000
                               /\ mean - (s[i + 1] - s[i]) < 1000
            /\ RefSquares(s, mean, 1) < 1000 * n
    IN  IF Len(s) < 3 THEN "Normal"
        ELSE IF \A i \in 1..n : s[i + 1] - s[i] < 100 THEN "Bruteforce"
        ELSE IF lowVariance THEN "Sequential"
        ELSE IF total < 1000 * n THEN "Dictionary"
        ELSE "Random"

\* C1: a source's stored sequence never holds more than 100 timestamps, and
\* right after a call for a source none of its timestamps is more than one
\* hour older than that call.
C1_TrackerBounded ==
    /\ \A k \in DOMAIN timing_tracker : Len(timing_tracker[k]) <= 100
    /\ (mutex = "free" /\ last.set) =>
           \A i \in 1..Len(timing_tracker[last.client_ip]) :
               last.at - timing_tracker[last.client_ip][i] <= 3600000

\* more than 100 requests of one source, then one after an idle hour: the
\* sequence was trimmed and then pruned down to the newest timestamp
C1_Witness ==
    /\ mutex = "free"
    /\ last.set
    /\ Len(seen[last.client_ip]) > 100
    /\ timing_tracker[last.client_ip] = <<last.at>>

C9_CallsAreAtomic ==
    /\ \A t \in Tasks : InCritical(t) => mutex = t
    /\ \A t, u \in Tasks : (InCritical(t) /\ InCritical(u)) => t = u
    /\ mutex = "free" =>
           \A ip \in DOMAIN seen :
               LET ts == Times(seen[ip])
                   N == Len(ts)
               IN  ts[N] - ts[1] < 3600000 =>
                       /\ ip \in DOMAIN timing_tracker
                       /\ Len(timing_tracker[ip]) = (IF N < 100 THEN N ELSE 100)
                       /\ timing_tracker[ip] = LastN(ts, 100)

\* 101 calls of one source within an hour, issued by two tasks of which one
\* is waiting for the next turn: 100 timestamps are stored
C9_Witness ==
    /\ mutex = "free"
    /\ \E t \in Tasks : pc[t] = "lock"
    /\ \E ip \in DOMAIN seen :
           /\ Len(seen[ip]) = 101
           /\ seen[ip][101].at - seen[ip][1].at < 3600000
           /\ Len(timing_tracker[ip]) = 100

\* C10: the tracker is keyed by source IP alone, and what a request reports
\* is determined by the history of its own IP, whatever the ports.
C10_KeyedBySourceIp ==
    mutex = "free" =>
        /\ DOMAIN timing_tracker = DOMAIN seen
        /\ \A ip \in DOMAIN seen : timing_tracker[ip] = Window(Times(seen[ip]))
        /\ last.set =>
               LET ts == Times(seen[last.addr.ip.o])
                   N == Len(ts)
                   a == Analysed(ts)
               IN  /\ last.at = ts[N]
                   /\ last.request_interval_ms =
                          (IF N >= 2 THEN <<ts[N] - ts[N - 1]>> ELSE <<>>)
                   /\ last.burst_requests =
                          Cardinality({i \in 1..Len(a) : ts[N] - a[i] < 10000})
                   /\ last.scan_pattern = RefScanPattern(a)

\* a request of one IP never changes what is stored for another IP
C10_OtherSourcesUntouched ==
    \A k \in DOMAIN timing_tracker :
        (k \notin DOMAIN timing_tracker' \/ timing_tracker'[k] # timing_tracker[k]) =>
            \E t \in Tasks : mutex = t /\ req[t].addr.ip.o = k

C10_PartitionedByIp ==
    [](C10_KeyedBySourceIp) /\ [][C10_OtherSourcesUntouched]_vars

\* two sources are tracked, and the latest request came from another port
\* than the one before it of the same IP
C10_Witness ==
    /\ mutex = "free"
    /\ last.set
    /\ Cardinality(DOMAIN seen) = 2
    /\ LET h == seen[last.addr.ip.o]
       IN  /\ Len(h) >= 2
           /\ h[Len(h)].port # h[Len(h) - 1].port
           /\ last.request_interval_ms = <<h[Len(h)].at - h[Len(h) - 1].at>>

(***************************************************************************)
(* calculate_threat_level applied to the results of the three analyses.    *)
(***************************************************************************)
\* scanner confidences: the tenths and the eighths of [0, 1] as f32, and the
\* clamped sums of weights that detect_scanner_tool returns
Confidences ==
    {0, F32_0_1, F32_0_2, F32_0_3, F32_0_4, F32_0_6, F32_0_7, F32_0_8, F32_0_9, F32_ONE}
    \cup {(k * F32_ONE) \div 8 : k \in 0..8}
    \cup {F32Add(F32_0_4, F32_0_3), F32Add(F32_0_4, F32_0_4), F32Add(F32_0_8, F32_0_1)}

BurstCounts == {0, 10, 11, 50, 51, 60}

TimingPatterns ==
    [request_interval_ms : {None}, burst_requests : BurstCounts, scan_pattern : ScanPatterns]

BrowserFingerprints ==
    {None} \cup {Some([is_real_browser |-> b]) : b \in BOOLEAN}

\* result.threat_level = calculate_threat_level(confidence, &result.timing_patterns,
\*                                              &result.browser_fingerprint)
calculate_threat_level_call(t) ==
    /\ pc[t] = "calculate_threat_level"
    /\ last' = [set |-> TRUE, kind |-> "threat",
                scanner_confidence |-> req[t].scanner_confidence,
                timing_patterns |-> req[t].timing_patterns,
                browser_fingerprint |-> req[t].browser_fingerprint,
                threat_level |-> calculate_threat_level(req[t].scanner_confidence,
                                                        req[t].timing_patterns,
                                                        req[t].browser_fingerprint)]
    /\ pc' = [pc EXCEPT ![t] = "idle"]
    /\ req' = [req EXCEPT ![t] = NoReq]
    /\ UNCHANGED <<now, timing_tracker, mutex, loc, seen, workload, calls, net>>

\* a task is about to aggregate the results of its three analyses
InitThreat ==
    /\ now = 0
    /\ timing_tracker = <<>>
    /\ seen = <<>>
    /\ mutex = "free"
    /\ loc = [t \in Tasks |-> NoLoc]
    /\ last = NoLast
    /\ calls = 0
    /\ net = [t \in Tasks |-> <<>>]
    /\ workload = "threat"
    /\ \E t \in Tasks : \E c \in Confidences : \E tp \in TimingPatterns :
           \E bf \in BrowserFingerprints :
               /\ pc = [u \in Tasks |-> IF u = t THEN "calculate_threat_level" ELSE "idle"]
               /\ req = [u \in Tasks |->
                            IF u = t THEN [kind |-> "threat", scanner_confidence |-> c,
                                           timing_patterns |-> tp,
                                           browser_fingerprint |-> bf]
                            ELSE NoReq]

NextThreat ==
    \E t \in Tasks : calculate_threat_level_call(t)

SpecThreat == InitThreat /\ [][NextThreat]_vars

\* the score of the reference without the confidence term, in halves
RefScoreHalves(scan_pattern, burst_requests, is_real_browser) ==
    (CASE scan_pattern = "Bruteforce" -> 6
       [] scan_pattern = "Dictionary" -> 5
       [] scan_pattern = "Sequential" -> 4
       [] scan_pattern = "Random" -> 2
       [] scan_pattern = "Normal" -> 0)
    + (IF burst_requests > 50 THEN 4 ELSE IF burst_requests > 10 THEN 2 ELSE 0)
    + (IF is_real_browser THEN 0 ELSE 4)

\* the level of score = 4 * confidence + halves / 2, in exact arithmetic
RefThreatLevel(scanner_confidence, halves) ==
    LET score == 4 * scanner_confidence + halves * (F32_ONE \div 2)
    IN  IF score >= 7 * F32_ONE THEN "Critical"
        ELSE IF score >= 5 * F32_ONE THEN "High"
        ELSE IF score >= 3 * F32_ONE THEN "Medium"
        ELSE "Low"

\* C6: the threat level is the level of 4 * confidence + pattern bonus
\* (Bruteforce 3, Dictionary 2.5, Sequential 2, Random 1, Normal 0) + burst
\* bonus (2 above 50, 1 above 10) + 2 if not a real browser, with >= 7
\* Critical, >= 5 High, >= 3 Medium, else Low; confidence 1.0, Bruteforce,
\* burst 60, not a real browser is Critical.
C6_ThreatLevelIsReference ==
    (last.kind = "threat" /\ last.browser_fingerprint # None) =>
        LET tp == last.timing_patterns
            real == last.browser_fingerprint[1].is_real_browser
        IN  /\ last.threat_level =
                   RefThreatLevel(last.scanner_confidence,
                                  RefScoreHalves(tp.scan_pattern, tp.burst_requests, real))
            /\ (/\ last.scanner_confidence = 2^27
                /\ tp.scan_pattern = "Bruteforce"
                /\ tp.burst_requests = 60
                /\ ~real) => last.threat_level = "Critical"

\* confidence 1.0, Bruteforce, 60 requests in the burst window, not a real
\* browser: the level returned is Critical
C6_Witness ==
    /\ last.kind = "threat"
    /\ last.scanner_confidence = 2^27
    /\ last.timing_patterns.scan_pattern = "Bruteforce"
    /\ last.timing_patterns.burst_requests = 60
    /\ last.browser_fingerprint = <<[is_real_browser |-> FALSE]>>
    /\ last.threat_level = "Critical"

(***************************************************************************)
(* lookup_geoip (common.rs).                                               *)
(***************************************************************************)
\* GeoLocation::default()
GeoLocationDefault ==
    [country_code |-> None, country_name |-> None, region_code |-> None,
     region_name |-> None, city |-> None, latitude |-> None, longitude |-> None,
     timezone |-> None, isp |-> None, organization |-> None]

\* std::net::Ipv4Addr
Ipv4IsPrivate(o) ==
    \/ o[1] = 10
    \/ o[1] = 172 /\ o[2] \in 16..31
    \/ o[1] = 192 /\ o[2] = 168
Ipv4IsLoopback(o) == o[1] = 127
Ipv4IsMulticast(o) == o[1] \in 224..239

\* std::net::Ipv6Addr
Ipv6IsLoopback(o) == o = <<0, 0, 0, 0, 0, 0, 0, 1>>
Ipv6IsMulticast(o) == o[1] \div 256 = 255
Ipv6IsUnspecified(o) == o = <<0, 0, 0, 0, 0, 0, 0, 0>>

is_private(ip) ==
    IF ip.v = 4
    THEN Ipv4IsPrivate(ip.o) \/ Ipv4IsLoopback(ip.o) \/ Ipv4IsMulticast(ip.o)
    ELSE Ipv6IsLoopback(ip.o) \/ Ipv6IsMulticast(ip.o) \/ Ipv6IsUnspecified(ip.o)

\* a JSON value of the provider's reply
\* (a number is held as its text)
JStr(x) == [t |-> "str", v |-> x]
JNum(x) == [t |-> "num", v |-> x]

\* geo_data.get(key).and_then(|v| v.as_str()).map(|s| s.to_string())
as_str(geo_data, key) ==
    IF key \in DOMAIN geo_data /\ geo_data[key].t = "str" THEN Some(geo_data[key].v) ELSE None

\* geo_data.get(key).and_then(|v| v.as_f64())
as_f64(geo_data, key) ==
    IF key \in DOMAIN geo_data /\ geo_data[key].t = "num" THEN Some(geo_data[key].v) ELSE None

GeoLocationOf(geo_data) ==
    [country_code |-> as_str(geo_data, "countryCode"),
     country_name |-> as_str(geo_data, "country"),
     region_code |-> as_str(geo_data, "region"),
     region_name |-> as_str(geo_data, "regionName"),
     city |-> as_str(geo_data, "city"),
     latitude |-> as_f64(geo_data, "lat"),
     longitude |-> as_f64(geo_data, "lon"),
     timezone |-> as_str(geo_data, "timezone"),
     isp |-> as_str(geo_data, "isp"),
     organization |-> as_str(geo_data, "org")]

\* what the call to the provider can come back with
GeoReplies ==
    { [result |-> "Err"],
      [result |-> "Ok", success |-> FALSE],
      [result |-> "Ok", success |-> TRUE, json |-> None],
      [result |-> "Ok", success |-> TRUE,
       json |-> Some([status |-> JStr("fail"), message |-> JStr("reserved range")])],
      [result |-> "Ok", success |-> TRUE,
       json |-> Some([status |-> JStr("fail"), message |-> JStr("quota"),
                      countryCode |-> JStr("DE"), country |-> JStr("Germany")])],
      [result |-> "Ok", success |-> TRUE,
       json |-> Some([countryCode |-> JStr("FR"), city |-> JStr("Paris")])],
      [result |-> "Ok", success |-> TRUE,
       json |-> Some([status |-> JStr("success"), countryCode |-> JStr("DE"),
                      country |-> JStr("Germany"), region |-> JStr("BE"),
                      regionName |-> JStr("Berlin"), city |-> JStr("Berlin"),
                      lat |-> JNum("52.52"), lon |-> JNum("13.40"),
                      timezone |-> JStr("Europe/Berlin"), isp |-> JStr("ExampleNet"),
                      org |-> JStr("Example Org")])],
      [result |-> "Ok", success |-> TRUE,
       json |-> Some([status |-> JStr("success"), countryCode |-> JStr("US"),
                      lat |-> JStr("n/a")])] }

\* a lookup that takes the fields of any reply that is a JSON document
GeoLocationOfAnyJson(reply) ==
    IF /\ reply.result = "Ok"
       /\ reply.success
       /\ reply.json # None
    THEN GeoLocationOf(reply.json[1])
    ELSE GeoLocationDefault

\* the location that lookup_geoip makes of a reply
GeoLocationOfReply(reply) ==
    IF /\ reply.result = "Ok"
       /\ reply.success
       /\ reply.json # None
       /\ as_str(reply.json[1], "status") = Some("success")
    THEN GeoLocationOf(reply.json[1])
    ELSE GeoLocationDefault

\* lookup_geoip returns to its caller
GeoReturn(t, location, reply) ==
    IF req[t].kind = "geo"
    THEN /\ last' = [set |-> TRUE, kind |-> "geo", task |-> t, ip |-> req[t].addr.ip,
                     location |-> location, reply |-> reply]
         /\ pc' = [pc EXCEPT ![t] = "idle"]
         /\ req' = [req EXCEPT ![t] = NoReq]
         /\ loc' = [loc EXCEPT ![t] = NoLoc]
    ELSE /\ loc' = [loc EXCEPT ![t].geo_location = Some(location)]
         /\ pc' = [pc EXCEPT ![t] = IF req[t].handler = "fingerprint_handler"
                                    THEN "fingerprint_log" ELSE "lock"]
         /\ UNCHANGED <<last, req>>

\* lookup_geoip up to the provider call: is_private, early return, send
lookup_geoip(t) ==
    /\ pc[t] = "lookup_geoip"
    /\ IF is_private(req[t].addr.ip)
       THEN /\ GeoReturn(t, GeoLocationDefault, None)
            /\ net' = net
       ELSE /\ net' = [net EXCEPT ![t] = Append(@, [kind |-> "geo_lookup",
                                                    ip |-> req[t].addr.ip])]
            /\ pc' = [pc EXCEPT ![t] = "geoip_reply"]
            /\ UNCHANGED <<last, req, loc>>
    /\ UNCHANGED <<now, timing_tracker, mutex, seen, workload, calls>>

\* the provider's reply, or the failure of the call, and the return
lookup_geoip_reply(t, reply) ==
    /\ pc[t] = "geoip_reply"
    /\ GeoReturn(t, GeoLocationOfReply(reply), Some(reply))
    /\ UNCHANGED <<now, timing_tracker, mutex, seen, workload, calls, net>>

\* the source addresses of the lookups
GeoIps ==
    { V4(10, 0, 0, 5), V4(172, 16, 3, 1), V4(172, 31, 255, 254), V4(172, 32, 0, 1),
      V4(192, 168, 1, 10), V4(127, 0, 0, 1), V4(224, 0, 0, 1), V4(239, 1, 2, 3),
      V4(169, 254, 10, 10), V4(0, 0, 0, 0), V4(8, 8, 8, 8), AttackerA,
      V6(<<0, 0, 0, 0, 0, 0, 0, 1>>), V6(<<0, 0, 0, 0, 0, 0, 0, 0>>),
      V6(<<65282, 0, 0, 0, 0, 0, 0, 1>>), V6(<<65152, 0, 0, 0, 0, 0, 0, 1>>),
      V6(<<64768, 0, 0, 0, 0, 0, 0, 1>>), V6(<<8193, 3512, 0, 0, 0, 0, 0, 1>>) }

\* each task is idle or about to look up a source address
InitGeo ==
    /\ now = 0
    /\ timing_tracker = <<>>
    /\ seen = <<>>
    /\ mutex = "free"
    /\ loc = [t \in Tasks |-> NoLoc]
    /\ last = NoLast
    /\ calls = 0
    /\ net = [t \in Tasks |-> <<>>]
    /\ workload = "geo"
    /\ \E ips \in [Tasks -> GeoIps \cup {None}] :
           /\ pc = [t \in Tasks |-> IF ips[t] = None THEN "idle" ELSE "lookup_geoip"]
           /\ req = [t \in Tasks |->
                        IF ips[t] = None THEN NoReq
                        ELSE [kind |-> "geo", addr |-> SockAddr(ips[t], 40001)]]

NextGeo ==
    \/ \E t \in Tasks : lookup_geoip(t)
    \/ \E t \in Tasks : \E reply \in GeoReplies : lookup_geoip_reply(t, reply)

SpecGeo == InitGeo /\ [][NextGeo]_vars

\* the address classes by their ranges: private (10/8, 172.16/12,
\* 192.168/16, fc00::/7), loopback (127/8, ::1), multicast (224/4, ff00::/8),
\* link-local (169.254/16, fe80::/10), unspecified (0.0.0.0, ::)
RefLocalAddress(ip) ==
    IF ip.v = 4
    THEN \/ ip.o[1] = 10
         \/ ip.o[1] = 172 /\ ip.o[2] >= 16 /\ ip.o[2] <= 31
         \/ ip.o[1] = 192 /\ ip.o[2] = 168
         \/ ip.o[1] = 127
         \/ ip.o[1] >= 224 /\ ip.o[1] <= 239
         \/ ip.o[1] = 169 /\ ip.o[2] = 254
         \/ ip.o = <<0, 0, 0, 0>>
    ELSE \/ ip.o[1] \div 512 = 126
         \/ ip.o = <<0, 0, 0, 0, 0, 0, 0, 1>>
         \/ ip.o[1] \div 256 = 255
         \/ ip.o[1] \div 64 = 1018
         \/ ip.o = <<0, 0, 0, 0, 0, 0, 0, 0>>

\* C3: for a private, loopback, multicast, link-local or unspecified source
\* address, IPv4 or IPv6, lookup_geoip never calls the provider and returns
\* the all-empty location.
C3_LocalAddressesSkipped ==
    /\ \A t \in Tasks : \A i \in 1..Len(net[t]) :
           net[t][i].kind = "geo_lookup" => ~RefLocalAddress(net[t][i].ip)
    /\ (last.kind = "geo" /\ RefLocalAddress(last.ip)) => last.location = GeoLocationDefault

\* the lookup of the link-local 169.254.10.10 called the provider and
\* returned the location it was given
C3_Witness ==
    /\ last.kind = "geo"
    /\ last.ip = V4(169, 254, 10, 10)
    /\ net[last.task] = <<[kind |-> "geo_lookup", ip |-> last.ip]>>
    /\ last.location.country_code = <<"DE">>

\* the call failed: a network error, a status that is not a success, a body
\* that is no JSON document, or a document whose status is not "success"
RefGeoFailure(reply) ==
    IF reply.result # "Ok" THEN TRUE
    ELSE IF ~reply.success THEN TRUE
    ELSE IF reply.json = None THEN TRUE
    ELSE IF "status" \notin DOMAIN reply.json[1] THEN TRUE
    ELSE reply.json[1].status # [t |-> "str", v |-> "success"]

\* C13: for a public source address lookup_geoip makes exactly one call to
\* the provider; every failure of the call (network error, non-success
\* status, unparseable body, provider status other than success) gives the
\* all-empty location, and a location that is not all-empty is returned
\* only for a call that succeeded with the status "success".  The caller
\* gets a location in every case.
C13_OneCallAndEmptyOnFailure ==
    (last.kind = "geo" /\ ~RefLocalAddress(last.ip)) =>
        /\ net[last.task] = <<[kind |-> "geo_lookup", ip |-> last.ip]>>
        /\ last.reply # None
        /\ DOMAIN last.location = DOMAIN GeoLocationDefault
        /\ RefGeoFailure(last.reply[1]) => last.location = GeoLocationDefault
        /\ last.location # GeoLocationDefault => ~RefGeoFailure(last.reply[1])

\* the lookup of 8.8.8.8 got a document with the status "fail" that names a
\* country, and returned the all-empty location after its one call
C13_Witness ==
    /\ last.kind = "geo"
    /\ last.ip = V4(8, 8, 8, 8)
    /\ last.reply # None
    /\ last.reply[1].result = "Ok"
    /\ last.reply[1].success
    /\ last.reply[1].json # None
    /\ "country" \in DOMAIN last.reply[1].json[1]
    /\ RefGeoFailure(last.reply[1])
    /\ last.location = GeoLocationDefault
    /\ Len(net[last.task]) = 1

(***************************************************************************)
(* The SSH honeypot (ssh_honeypot.rs).                                     *)
(***************************************************************************)
\* connections accepted in a run
MaxSsh == 2

\* "SSH-2.0-OpenSSH_7.6p1 EchoChamber-Honeypot\r\n"
server_banner ==
    [text |-> "SSH-2.0-OpenSSH_7.6p1 EchoChamber-Honeypot", client_ip |-> None,
     details |-> None]

\* String::from("No client banner or read error")
NoClientBanner ==
    <<"N", "o", " ", "c", "l", "i", "e", "n", "t", " ", "b", "a", "n", "n", "e", "r", " ", "o", "r", " ", "r", "e", "a", "d", " ", "e", "r", "r", "o", "r">>

KeyUser == <<"u", "s", "e", "r">>
KeyPass == <<"p", "a", "s", "s">>
Unknown == <<"u", "n", "k", "n", "o", "w", "n">>
SshConnection == <<"s", "s", "h", "-", "c", "o", "n", "n", "e", "c", "t", "i", "o", "n">>

\* what a read of the client's first bytes returns; the empty sequence is a
\* read of zero bytes (the client closed without sending)
ClientData ==
    { <<>>,
      <<"S", "S", "H", "-", "2", ".", "0", "-", "G", "o", "\r", "\n">>,
      <<"u", "s", "e", "r", "=", "r", "o", "o", "t", "\n", "p", "a", "s", "s",
      "=", "t", "o", "o", "r", "\n">>,
      <<"U", "S", "E", "R", " ", "a", "d", "m", "i", "n", " ", "s", "s", "h",
      "-", "c", "o", "n", "n", "e", "c", "t", "i", "o", "n">> }

\* extract_from_raw(raw_data, key_prefix, _default_value)
extract_from_raw(raw_data, key_prefix) ==
    LET lower_raw == to_lowercase(raw_data)
        start_idx == find(lower_raw, key_prefix)
    IN  IF start_idx = None THEN None
        ELSE LET after_key == slice_from(raw_data, start_idx[1] + Len(key_prefix))
                 val_start_idx == find_char(after_key, LAMBDA c : c = "=" \/ is_whitespace(c))
             IN  IF val_start_idx = None THEN None
                 ELSE LET value_part == slice_from(after_key, val_start_idx[1])
                          val_end_idx == find_char(value_part, LAMBDA c : c = "\n")
                      IN  IF val_end_idx = None THEN None
                          ELSE Some(trim(slice_to(value_part, val_end_idx[1])))

\* the interaction_data of a connection
SshInteractionData(client_data_raw, addr) ==
    [client_banner |-> trim(client_data_raw),
     username_attempt |-> unwrap_or(extract_from_raw(client_data_raw, KeyUser), Unknown),
     password_attempt |-> unwrap_or(extract_from_raw(client_data_raw, KeyPass), Unknown),
     login_method |-> IF contains(client_data_raw, SshConnection)
                      THEN "ssh_client_attempt" ELSE "raw_tcp_interception",
     client_ip |-> ClientIpKey(addr),
     client_port |-> addr.port]

SshAddrs == {SockAddr(AttackerA, 40001), SockAddr(AttackerB, 40002)}

\* a listener that handles a connection itself
\* (handle_ssh_connection(..).await in the loop) accepts the next one when
\* the handler has returned
ssh_accept_serial(t, addr) ==
    /\ workload = "ssh"
    /\ \A u \in Tasks : pc[u] = "idle"
    /\ calls < MaxSsh
    /\ calls' = calls + 1
    /\ req' = [req EXCEPT ![t] = [kind |-> "ssh", addr |-> addr]]
    /\ loc' = [loc EXCEPT ![t] = NoLoc]
    /\ net' = [net EXCEPT ![t] = <<>>]
    /\ pc' = [pc EXCEPT ![t] = "ssh_banner"]
    /\ UNCHANGED <<now, timing_tracker, mutex, last, seen, workload>>

\* listener.accept() and tokio::spawn(handle_ssh_connection(..))
ssh_accept(t, addr) ==
    /\ workload = "ssh"
    /\ pc[t] = "idle"
    /\ calls < MaxSsh
    /\ calls' = calls + 1
    /\ req' = [req EXCEPT ![t] = [kind |-> "ssh", addr |-> addr]]
    /\ loc' = [loc EXCEPT ![t] = NoLoc]
    /\ net' = [net EXCEPT ![t] = <<>>]
    /\ pc' = [pc EXCEPT ![t] = "ssh_banner"]
    /\ UNCHANGED <<now, timing_tracker, mutex, last, seen, workload>>

\* accept errors in a run
MaxAcceptErrors == 1

\* listener.accept() returns Err: the error is printed and the loop goes on
ssh_accept_error ==
    /\ workload = "ssh"
    /\ IF last.kind = "accept_error" THEN last.errors < MaxAcceptErrors ELSE TRUE
    /\ last' = [set |-> TRUE, kind |-> "accept_error",
                errors |-> IF last.kind = "accept_error" THEN last.errors + 1 ELSE 1]
    /\ UNCHANGED <<now, timing_tracker, mutex, pc, req, loc, seen, workload, calls, net>>

\* stream.write_all(server_banner); on an error shutdown and return
ssh_send_banner(t, ok) ==
    /\ pc[t] = "ssh_banner"
    /\ IF ok
       THEN /\ net' = [net EXCEPT ![t] = Append(@, [kind |-> "write", ok |-> TRUE,
                                                    data |-> server_banner])]
            /\ pc' = [pc EXCEPT ![t] = "ssh_read"]
            /\ UNCHANGED req
       ELSE /\ net' = [net EXCEPT ![t] = Append(@, [kind |-> "shutdown"])]
            /\ pc' = [pc EXCEPT ![t] = "idle"]
            /\ req' = [req EXCEPT ![t] = NoReq]
    /\ UNCHANGED <<now, timing_tracker, mutex, loc, last, seen, workload, calls>>

\* the outcomes of timeout(2 s, stream.read(..)): Ok(Ok(n)) with the bytes
\* read, Ok(Err(_)), or Err(Elapsed)
ReadOutcomes ==
    {[result |-> "data", data |-> d] : d \in ClientData}
    \cup {[result |-> "error"], [result |-> "timeout"]}

READ_TIMEOUT_MS == 2000

\* a handler that gives up on a connection whose read did not succeed
ssh_read_or_abort(t, outcome) ==
    /\ pc[t] = "ssh_read"
    /\ IF outcome.result = "timeout" THEN now + READ_TIMEOUT_MS <= MaxTime ELSE TRUE
    /\ now' = IF outcome.result = "timeout" THEN now + READ_TIMEOUT_MS ELSE now
    /\ IF outcome.result = "data"
       THEN /\ net' = [net EXCEPT ![t] = Append(@, [kind |-> "read", result |-> "data",
                                                    n |-> Len(outcome.data)])]
            /\ loc' = [loc EXCEPT ![t].interaction_data =
                                      SshInteractionData(outcome.data, req[t].addr)]
            /\ pc' = [pc EXCEPT ![t] = "ssh_log"]
            /\ UNCHANGED req
       ELSE /\ net' = [net EXCEPT ![t] = @ \o <<[kind |-> "read", result |-> outcome.result,
                                                  n |-> 0],
                                                 [kind |-> "shutdown"]>>]
            /\ pc' = [pc EXCEPT ![t] = "idle"]
            /\ req' = [req EXCEPT ![t] = NoReq]
            /\ UNCHANGED loc
    /\ UNCHANGED <<timing_tracker, mutex, last, seen, workload, calls>>

\* the read with its timeout, and the interaction data made of what was read
ssh_read(t, outcome) ==
    /\ pc[t] = "ssh_read"
    /\ IF outcome.result = "timeout" THEN now + READ_TIMEOUT_MS <= MaxTime ELSE TRUE
    /\ now' = IF outcome.result = "timeout" THEN now + READ_TIMEOUT_MS ELSE now
    /\ net' = [net EXCEPT ![t] =
                   Append(@, [kind |-> "read", result |-> outcome.result,
                              n |-> IF outcome.result = "data" THEN Len(outcome.data)
                                    ELSE 0])]
    /\ LET client_data_raw == IF outcome.result = "data" THEN outcome.data
                              ELSE NoClientBanner
       IN  loc' = [loc EXCEPT ![t].interaction_data =
                                  SshInteractionData(client_data_raw, req[t].addr)]
    /\ pc' = [pc EXCEPT ![t] = "ssh_log"]
    /\ UNCHANGED <<timing_tracker, mutex, req, last, seen, workload, calls>>

\* log_ssh_interaction, part 1: the POST to the log store; whatever comes
\* back is only printed
ssh_log_store(t) ==
    /\ pc[t] = "ssh_log"
    /\ net' = [net EXCEPT ![t] =
                   Append(@, [kind |-> "log_store",
                              payload |-> [source_ip |-> ClientIpKey(req[t].addr),
                                           honeypot_type |-> "ssh",
                                           interaction_data |-> loc[t].interaction_data,
                                           status |-> "logged"]])]
    /\ pc' = [pc EXCEPT ![t] = "ssh_generator"]
    /\ UNCHANGED <<now, timing_tracker, mutex, req, loc, last, seen, workload, calls>>

\* what the POST to the generator can come back with
GeneratorReplies ==
    { [result |-> "Err"],
      [result |-> "Ok", success |-> FALSE],
      [result |-> "Ok", success |-> TRUE, json |-> None],
      [result |-> "Ok", success |-> TRUE, json |-> Some([analysis |-> JStr("none")])],
      [result |-> "Ok", success |-> TRUE,
       json |-> Some([disinformation_payload |-> [content |-> JNum("7")]])],
      [result |-> "Ok", success |-> TRUE,
       json |-> Some([disinformation_payload |->
                          [content |-> JStr("The backup server moved to 10.0.5.20")]])] }

\* the content of a generator reply, if it has one
ReplyContent(reply) ==
    IF /\ reply.result = "Ok"
       /\ reply.success
       /\ reply.json # None
       /\ "disinformation_payload" \in DOMAIN reply.json[1]
       /\ "content" \in DOMAIN reply.json[1].disinformation_payload
       /\ reply.json[1].disinformation_payload.content.t = "str"
    THEN Some(reply.json[1].disinformation_payload.content.v)
    ELSE None

\* log_ssh_interaction, part 2: the POST to the generator and the
\* disinformation content taken from its reply
ssh_generator(t, reply) ==
    /\ pc[t] = "ssh_generator"
    /\ net' = [net EXCEPT ![t] =
                   Append(@, [kind |-> "generator",
                              payload |-> [source_ip |-> ClientIpKey(req[t].addr),
                                           honeypot_type |-> "ssh",
                                           interaction_data |-> loc[t].interaction_data,
                                           status |-> "logged"],
                              reply |-> reply])]
    /\ loc' = [loc EXCEPT ![t].disinformation_content =
                   IF reply.result = "Err" THEN "KI-Fehler: Konnte keine Antwort erhalten."
                   ELSE unwrap_or(ReplyContent(reply), "Authentication failed. Try again.")]
    /\ pc' = [pc EXCEPT ![t] = "ssh_reply"]
    /\ UNCHANGED <<now, timing_tracker, mutex, req, last, seen, workload, calls>>

\* format!("Authentication failed. For more information, please visit
\* http://{}:8080/system-status?details={}\r\n", client_ip, encoded_disinfo)
final_response_message(client_ip, disinformation_content) ==
    [text |-> "Authentication failed. For more information, please visit",
     client_ip |-> Some(client_ip),
     details |-> Some([urlencoded |-> disinformation_content])]

\* a handler that closes the connection without the final message
ssh_reply_silent(t, ok) ==
    /\ pc[t] = "ssh_reply"
    /\ pc' = [pc EXCEPT ![t] = "ssh_shutdown"]
    /\ UNCHANGED <<now, timing_tracker, mutex, req, loc, last, seen, workload, calls, net>>

\* stream.write_all(final_response_message), whose error is only printed
ssh_reply(t, ok) ==
    /\ pc[t] = "ssh_reply"
    /\ net' = [net EXCEPT ![t] =
                   Append(@, [kind |-> "write", ok |-> ok,
                              data |-> final_response_message(ClientIpKey(req[t].addr),
                                                              loc[t].disinformation_content)])]
    /\ pc' = [pc EXCEPT ![t] = "ssh_shutdown"]
    /\ UNCHANGED <<now, timing_tracker, mutex, req, loc, last, seen, workload, calls>>

\* stream.shutdown()
ssh_shutdown(t) ==
    /\ pc[t] = "ssh_shutdown"
    /\ net' = [net EXCEPT ![t] = Append(@, [kind |-> "shutdown"])]
    /\ pc' = [pc EXCEPT ![t] = "idle"]
    /\ req' = [req EXCEPT ![t] = NoReq]
    /\ loc' = [loc EXCEPT ![t] = NoLoc]
    /\ UNCHANGED <<now, timing_tracker, mutex, last, seen, workload, calls>>

InitSsh ==
    /\ InitCommon
    /\ workload = "ssh"

NextSsh ==
    \/ \E t \in Tasks : \E addr \in SshAddrs : ssh_accept(t, addr)
    \/ ssh_accept_error
    \/ \E t \in Tasks : \E ok \in BOOLEAN : ssh_send_banner(t, ok)
    \/ \E t \in Tasks : \E outcome \in ReadOutcomes : ssh_read(t, outcome)
    \/ \E t \in Tasks : ssh_log_store(t)
    \/ \E t \in Tasks : \E reply \in GeneratorReplies : ssh_generator(t, reply)
    \/ \E t \in Tasks : \E ok \in BOOLEAN : ssh_reply(t, ok)
    \/ \E t \in Tasks : ssh_shutdown(t)

SpecSsh == InitSsh /\ [][NextSsh]_vars

\* the positions in a history of the events of one kind
EventsOf(h, kind) ==
    {i \in 1..Len(h) : h[i].kind = kind}

TimedOut(h) ==
    \E i \in EventsOf(h, "read") : h[i].result = "timeout"

IsAuthFailedWrite(e) ==
    /\ e.kind = "write"
    /\ e.data.text = "Authentication failed. For more information, please visit"

\* C7: on a connection whose client sent nothing before the read timeout,
\* the record forwarded to the log store has username_attempt "unknown", and
\* the socket is closed only after that record was forwarded and the
\* authentication-failed message was then written to the client.
C7_TimeoutStillLoggedAndAnswered ==
    \A t \in Tasks :
        LET h == net[t]
        IN  TimedOut(h) =>
                /\ \A i \in EventsOf(h, "log_store") :
                       h[i].payload.interaction_data.username_attempt =
                           <<"u", "n", "k", "n", "o", "w", "n">>
                /\ \A k \in EventsOf(h, "shutdown") :
                       \E i \in EventsOf(h, "log_store") :
                           \E j \in EventsOf(h, "write") :
                               /\ IsAuthFailedWrite(h[j])
                               /\ Max(EventsOf(h, "read")) < i
                               /\ i < j
                               /\ j < k

\* a connection timed out on its read, was logged with username "unknown",
\* was sent the authentication-failed message and was then closed, while
\* the other task handles a connection that sent credentials
C7_Witness ==
    \E t, u \in Tasks :
        /\ TimedOut(net[t])
        /\ \E i \in EventsOf(net[t], "log_store") :
               net[t][i].payload.interaction_data.username_attempt =
                   <<"u", "n", "k", "n", "o", "w", "n">>
        /\ \E j \in EventsOf(net[t], "write") : IsAuthFailedWrite(net[t][j]) /\ net[t][j].ok
        /\ EventsOf(net[t], "shutdown") # {}
        /\ u # t
        /\ \E i \in EventsOf(net[u], "log_store") :
               net[u][i].payload.interaction_data.username_attempt # 
                   <<"u", "n", "k", "n", "o", "w", "n">>

\* C12: the SSH listener never waits for the handling of a connection to
\* finish.  Whatever the handlers of earlier connections are doing, and also
\* after an accept error, the listener can accept the next connection and
\* hand it to a task of its own (as long as the run has a connection and a
\* task left).
C12_ListenerNeverWaits ==
    (calls < MaxSsh /\ \E t \in Tasks : pc[t] = "idle")
        => ENABLED (\E t \in Tasks : \E addr \in SshAddrs : ssh_accept(t, addr))

\* after an accept error a connection was accepted while the handler of an
\* earlier connection was suspended in its first call, and both run
C12_Witness ==
    /\ last.kind = "accept_error"
    /\ \E t, u \in Tasks :
           /\ t # u
           /\ pc[t] = "ssh_generator"
           /\ pc[u] = "ssh_read"

(***************************************************************************)
(* detect_scanner_tool applied to the headers, the path and the body of a  *)
(* request.                                                                *)
(***************************************************************************)
\* the User-Agent values of the requests
UserAgents ==
    { <<"g", "o", "b", "u", "s", "t", "e", "r", "/", "3", ".", "1">>,
      <<"n", "i", "k", "t", "o", " ", "g", "o", "b", "u", "s", "t", "e", "r">>,
      <<"g", "o", "b", "u", "s", "t", "e", "r", " ", "b", "o", "t", " ", "c", "r", "a", "w", "l", "e", "r", " ", "s", "c", "a", "n", "n", "e", "r">>,
      <<"n", "i", "k", "t", "o", " ", "b", "o", "t", " ", "c", "r", "a", "w", "l", "e", "r">>,
      <<"N", "i", "k", "t", "o", "/", "2", ".", "1", ".", "6">>,
      <<"s", "q", "l", "m", "a", "p", "/", "1", ".", "7">>,
      <<"M", "o", "z", "i", "l", "l", "a", "/", "5", ".", "0", " ", "F", "i", "r", "e", "f", "o", "x", "/", "1", "1", "5", ".", "0">> }

DetectPaths ==
    { <<"/">>,
      <<"/", "a", "d", "m", "i", "n">>,
      <<"/", "s", "c", "r", "i", "p", "t", "s", "/", "a", "d", "m", "i", "n">>,
      <<"/", "c", "g", "i", "-", "b", "i", "n", "/", "s", "c", "r", "i", "p", "t", "s", "/", "a">>,
      <<"/", "l", "o", "g", "i", "n", "/", "c", "o", "n", "f", "i", "g">> }

\* the headers that accompany the User-Agent
OtherHeaders ==
    { <<>>,
      [x \in {"x-scanner"} |-> <<"1">>],
      [x \in {"x-scanner", "x-tool", "x-automated"} |-> <<"1">>],
      [x \in {"accept", "accept-language", "accept-encoding"} |->
          IF x = "accept" THEN <<"*", "/", "*">>
          ELSE IF x = "accept-language" THEN <<"e", "n">>
          ELSE Gzip] }

DetectBodies ==
    { None, Some(<<"x", "'", " ", "U", "N", "I", "O", "N", " ", " ", "S", "E", "L", "E", "C", "T", " ", "1">>) }

\* a HeaderMap with one more header
insert(headers, name, value) ==
    [x \in DOMAIN headers \cup {name} |-> IF x = name THEN value ELSE headers[x]]

DetectHeaders ==
    OtherHeaders \cup {insert(h, "user-agent", ua) : h \in OtherHeaders, ua \in UserAgents}

\* the call returns
DetectReturn(t, detected) ==
    last' = [set |-> TRUE, kind |-> "detect",
             headers |-> req[t].headers, path |-> req[t].path, body |-> req[t].body,
             scanner_type |-> detected.scanner_type,
             tool_confidence |-> detected.tool_confidence]

\* let (scanner_type, confidence) = detect_scanner_tool(headers, request_path,
\*                                                      request_body)
detect_scanner_tool_call(t) ==
    /\ pc[t] = "detect_scanner_tool"
    /\ DetectReturn(t, detect_scanner_tool(req[t].headers, req[t].path, req[t].body))
    /\ pc' = [pc EXCEPT ![t] = "idle"]
    /\ req' = [req EXCEPT ![t] = NoReq]
    /\ UNCHANGED <<now, timing_tracker, mutex, loc, seen, workload, calls, net>>

\* a task is about to match a request against the catalog
InitDetect ==
    /\ now = 0
    /\ timing_tracker = <<>>
    /\ seen = <<>>
    /\ mutex = "free"
    /\ loc = [t \in Tasks |-> NoLoc]
    /\ last = NoLast
    /\ calls = 0
    /\ net = [t \in Tasks |-> <<>>]
    /\ workload = "detect"
    /\ \E t \in Tasks : \E headers \in DetectHeaders : \E path \in DetectPaths :
           \E body \in DetectBodies :
               /\ pc = [u \in Tasks |-> IF u = t THEN "detect_scanner_tool" ELSE "idle"]
               /\ req = [u \in Tasks |->
                            IF u = t THEN [kind |-> "detect", headers |-> headers,
                                           path |-> path, body |-> body]
                            ELSE NoReq]

NextDetect ==
    \E t \in Tasks : detect_scanner_tool_call(t)

SpecDetect == InitDetect /\ [][NextDetect]_vars

\* the accumulated score of the i-th signature of the catalog for the request
\* that was matched last
ScoreOf(i) ==
    signature_confidence(SCANNER_SIGNATURES[i],
                         Matched(last.headers, last.path, last.body))

\* the signatures whose score exceeds their threshold
Accepted ==
    {i \in 1..Len(SCANNER_SIGNATURES) :
        ScoreOf(i) > SCANNER_SIGNATURES[i].confidence_threshold}

\* a user-agent pattern of the signature matches, a path pattern of it
\* matches, and its score exceeds its threshold
Qualifies(i) ==
    LET signature == SCANNER_SIGNATURES[i]
    IN  /\ contains_key(last.headers, "user-agent")
        /\ \E k \in 1..Len(signature.user_agent_patterns) :
               is_match(signature.user_agent_patterns[k],
                        to_lowercase(last.headers["user-agent"]))
        /\ \E k \in 1..Len(signature.path_patterns) :
               is_match(signature.path_patterns[k], to_lowercase(last.path))
        /\ i \in Accepted

\* j is accepted and outranks i: a higher score, or the same score and an
\* earlier place in the catalog
Outranks(j, i) ==
    /\ j \in Accepted
    /\ \/ ScoreOf(j) > ScoreOf(i)
       \/ ScoreOf(j) = ScoreOf(i) /\ j < i

MaxHttp == 1

\* Html(generate_simple_404().await)
generate_simple_404 ==
    [status |-> "200 OK", page |-> "404 Not Found", disinformation_text |-> ""]

\* Html(generate_dynamic_html_response(disinformation_content).await)
generate_dynamic_html_response(disinformation_text) ==
    [status |-> "200 OK", page |-> "Systemmeldung: Interner Fehler",
     disinformation_text |-> disinformation_text]

\* the "OK" of fingerprint_handler
FingerprintOk ==
    [status |-> "200 OK", page |-> "OK", disinformation_text |-> ""]

\* the router's answer to a method that the route of the path does not serve
MethodNotAllowed ==
    [status |-> "405 Method Not Allowed", page |-> "", disinformation_text |-> ""]

NotAvailable == <<"N", "/", "A">>

\* serde_json::from_str::<Value>(&body).is_ok(), for the documents of the
\* model: a string, a number, a literal, or an object of at most one member
JsonString(s) ==
    /\ Len(s) >= 2
    /\ s[1] = "\"" /\ s[Len(s)] = "\""
    /\ \A i \in 2..(Len(s) - 1) : s[i] \notin {"\"", "\\", "\n", "\r", "\t"}

JsonNumber(s) ==
    /\ s # <<>>
    /\ \A i \in 1..Len(s) : s[i] \in {"0", "1", "2", "3", "4", "5", "6", "7", "8", "9"}
    /\ Len(s) = 1 \/ s[1] # "0"

JsonScalar(s) ==
    \/ JsonString(s)
    \/ JsonNumber(s)
    \/ s \in {<<"t", "r", "u", "e">>, <<"f", "a", "l", "s", "e">>, <<"n", "u", "l", "l">>}

JsonObject(s) ==
    /\ Len(s) >= 2
    /\ s[1] = "{" /\ s[Len(s)] = "}"
    /\ \/ trim(SubSeq(s, 2, Len(s) - 1)) = <<>>
       \/ \E k \in 3..(Len(s) - 1) :
              /\ s[k] = ":"
              /\ JsonString(trim(SubSeq(s, 2, k - 1)))
              /\ JsonScalar(trim(SubSeq(s, k + 1, Len(s) - 1)))

from_str_is_ok(body) ==
    JsonScalar(trim(body)) \/ JsonObject(trim(body))

\* the requests that clients send
HttpMethods == {"GET", "POST", "PUT"}

HttpPaths ==
    { <<"/", "f", "a", "v", "i", "c", "o", "n", ".", "i", "c", "o">>,
      <<"/", "s", "w", ".", "j", "s", ".", "m", "a", "p">>,
      FingerprintPath,
      <<"/", "s", "e", "a", "r", "c", "h">> }

BrowserHeaders ==
    [x \in {"user-agent", "accept", "accept-language", "accept-encoding"} |->
        IF x = "user-agent" THEN <<"M", "o", "z", "i", "l", "l", "a", "/", "5", ".", "0">>
        ELSE IF x = "accept" THEN <<"*", "/", "*">>
        ELSE IF x = "accept-language" THEN <<"e", "n">>
        ELSE Gzip]

HttpHeaders ==
    { BrowserHeaders,
      insert(BrowserHeaders, "access-control-request-method", <<"O", "p", "T", "i", "o", "n", "s">>),
      [x \in {"user-agent", "x-scanner"} |->
          IF x = "user-agent" THEN <<"s", "q", "l", "m", "a", "p", "/", "1", ".", "7">> ELSE <<"1">>] }

HttpBodies ==
    { <<"\"", "1", " ", "U", "n", "i", "o", "n", " ", "S", "E", "L", "E", "C",
      "T", " ", "p", "w", " ", "F", "r", "o", "m", " ", "u", "s", "e", "r",
      "s", "\"">>,
      <<"q", "=", "h", "e", "l", "l", "o">>,
      <<"c", "=", "<", "s", "c", "r", "i", "p", "t", ">", "a", "l", "e", "r",
      "t", "(", "1", ")", "<", "/", "s", "c", "r", "i", "p", "t", ">">> }

HttpRequests ==
    [method : HttpMethods, path : HttpPaths, headers : HttpHeaders, body : HttpBodies]

HttpAddrs == {SockAddr(AttackerA, 40001)}

\* the replies of the provider and of the generator to the calls of a request
HttpGeoReplies ==
    {reply \in GeoReplies :
        \/ reply.result = "Err"
        \/ GeoLocationOfReply(reply).city # None}

HttpGeneratorReplies == GeneratorReplies

\* the response leaves, and the task is free for another request
Respond(t, response) ==
    /\ net' = [net EXCEPT ![t] = Append(@, [kind |-> "response",
                                            response |-> response])]
    /\ last' = [set |-> TRUE, kind |-> "http", task |-> t, request |-> req[t],
                response |-> response,
                is_suspicious_request |-> loc[t].is_suspicious_request,
                additional_indicators |-> loc[t].additional_indicators,
                fingerprint_result |-> loc[t].fingerprint_result,
                history |-> net'[t]]
    /\ pc' = [pc EXCEPT ![t] = "idle"]
    /\ req' = [req EXCEPT ![t] = NoReq]
    /\ loc' = [loc EXCEPT ![t] = NoLoc]

\* the router takes a request and calls the handler of its method and path
http_request(t, addr, request) ==
    /\ workload = "http"
    /\ pc[t] = "idle"
    /\ calls < MaxHttp
    /\ calls' = calls + 1
    /\ LET handler == route(request.method, request.path)
       IN  /\ req' = [req EXCEPT ![t] =
                         [kind |-> "http", addr |-> addr, client_ip |-> ClientIpKey(addr),
                          method |-> request.method, path |-> request.path,
                          headers |-> request.headers, body |-> request.body,
                          handler |-> handler]]
           /\ pc' = [pc EXCEPT ![t] = handler]
    /\ loc' = [loc EXCEPT ![t] = NoLoc]
    /\ net' = [net EXCEPT ![t] = <<>>]
    /\ UNCHANGED <<now, timing_tracker, mutex, last, seen, workload>>

method_not_allowed(t) ==
    /\ pc[t] = "method_not_allowed"
    /\ Respond(t, MethodNotAllowed)
    /\ UNCHANGED <<now, timing_tracker, mutex, seen, workload, calls>>

\* a handler that never ignores a request
HandleAll(t, request_body) ==
    /\ loc' = [loc EXCEPT
               ![t].request_body = request_body,
               ![t].is_suspicious_request =
                   Some(is_attack_request(req[t].path, req[t].headers, request_body))]
    /\ pc' = [pc EXCEPT ![t] = "lookup_geoip"]
    /\ UNCHANGED <<net, last, req>>
    /\ UNCHANGED <<now, timing_tracker, mutex, seen, workload, calls>>

\* a handler of the wildcard routes, up to the geolocation lookup of
\* log_http_interaction
Handle(t, request_body) ==
    /\ IF should_ignore_request(req[t].path, req[t].headers)
       THEN Respond(t, generate_simple_404)
       ELSE /\ loc' = [loc EXCEPT
                       ![t].request_body = request_body,
                       ![t].is_suspicious_request =
                           Some(is_attack_request(req[t].path, req[t].headers,
                                                  request_body))]
            /\ pc' = [pc EXCEPT ![t] = "lookup_geoip"]
            /\ UNCHANGED <<net, last, req>>
    /\ UNCHANGED <<now, timing_tracker, mutex, seen, workload, calls>>

\* GET: log_http_interaction(.., None)
honeypot_handler(t) ==
    /\ pc[t] = "honeypot_handler"
    /\ Handle(t, None)

\* POST: log_http_interaction(.., Some(body))
honeypot_handler_post(t) ==
    /\ pc[t] = "honeypot_handler_post"
    /\ Handle(t, Some(req[t].body))

\* POST /fingerprint: a body that is a JSON document is enriched and logged
fingerprint_handler(t) ==
    /\ pc[t] = "fingerprint_handler"
    /\ IF from_str_is_ok(req[t].body)
       THEN /\ pc' = [pc EXCEPT ![t] = "lookup_geoip"]
            /\ UNCHANGED <<net, last, req, loc>>
       ELSE Respond(t, FingerprintOk)
    /\ UNCHANGED <<now, timing_tracker, mutex, seen, workload, calls>>

\* what the POST to the log store can come back with: a network error, a
\* status that is not a success, a success
LogStoreReplies ==
    {[result |-> "Err"], [result |-> "Ok", success |-> FALSE],
     [result |-> "Ok", success |-> TRUE]}

\* a handler that answers a failed POST of the fingerprint with an error
fingerprint_log_fatal(t, reply) ==
    /\ pc[t] = "fingerprint_log"
    /\ LET response == IF reply.result = "Ok" /\ reply.success THEN FingerprintOk
                       ELSE [status |-> "500 Internal Server Error", page |-> "",
                             disinformation_text |-> ""]
       IN  /\ net' = [net EXCEPT ![t] =
                         Append(Append(@, [kind |-> "log_store",
                                           table |-> "browser_fingerprints",
                                           payload |-> [honeypot_type |-> "http_fingerprint"],
                                           reply |-> reply]),
                                [kind |-> "response", response |-> response])]
           /\ last' = [set |-> TRUE, kind |-> "http", task |-> t, request |-> req[t],
                       response |-> response,
                       is_suspicious_request |-> loc[t].is_suspicious_request,
                       additional_indicators |-> loc[t].additional_indicators,
                       fingerprint_result |-> loc[t].fingerprint_result,
                       history |-> net'[t]]
    /\ pc' = [pc EXCEPT ![t] = "idle"]
    /\ req' = [req EXCEPT ![t] = NoReq]
    /\ loc' = [loc EXCEPT ![t] = NoLoc]
    /\ UNCHANGED <<now, timing_tracker, mutex, seen, workload, calls>>

\* the POST of the enhanced fingerprint to the browser_fingerprints table of
\* the log store, whose outcome is only printed, and the "OK"
fingerprint_log(t, reply) ==
    /\ pc[t] = "fingerprint_log"
    /\ LET geo_location == loc[t].geo_location[1]
           enhanced_fingerprint ==
               [source_ip |-> req[t].client_ip,
                honeypot_type |-> "http_fingerprint",
                fingerprint_data |-> req[t].body,
                headers |-> req[t].headers,
                country_code |-> geo_location.country_code,
                country_name |-> geo_location.country_name]
       IN  /\ net' = [net EXCEPT ![t] =
                         Append(Append(@, [kind |-> "log_store",
                                           table |-> "browser_fingerprints",
                                           payload |-> enhanced_fingerprint,
                                           reply |-> reply]),
                                [kind |-> "response", response |-> FingerprintOk])]
           /\ last' = [set |-> TRUE, kind |-> "http", task |-> t, request |-> req[t],
                       response |-> FingerprintOk,
                       is_suspicious_request |-> loc[t].is_suspicious_request,
                       additional_indicators |-> loc[t].additional_indicators,
                       fingerprint_result |-> loc[t].fingerprint_result,
                       history |-> net'[t]]
    /\ pc' = [pc EXCEPT ![t] = "idle"]
    /\ req' = [req EXCEPT ![t] = NoReq]
    /\ loc' = [loc EXCEPT ![t] = NoLoc]
    /\ UNCHANGED <<now, timing_tracker, mutex, seen, workload, calls>>

\* the FingerprintingResult of the three analyses
FingerprintingResult(detected, browser_fingerprint, timing_patterns) ==
    [scanner_type |-> detected.scanner_type,
     tool_confidence |-> detected.tool_confidence,
     browser_fingerprint |-> browser_fingerprint,
     timing_patterns |-> timing_patterns,
     threat_level |-> calculate_threat_level(detected.tool_confidence, timing_patterns,
                                             browser_fingerprint)]

\* the interaction data of a request and the result added to it.  (The URI,
\* the query, the HTTP version and the parsed body are not modelled.)
InteractionData(t, result) ==
    [request_path |-> req[t].path,
     method |-> req[t].method,
     user_agent |-> unwrap_or(get(req[t].headers, "user-agent"), NotAvailable),
     headers |-> req[t].headers,
     client_port |-> req[t].addr.port,
     request_body |-> loc[t].request_body,
     fingerprinting |-> result]

\* the task holds the result and the score of the generic indicators that
\* went into it
Fingerprinted(t, result, additional) ==
    loc' = [loc EXCEPT ![t].fingerprint_result = Some(result),
                       ![t].additional_indicators = Some(additional),
                       ![t].interaction_data = Some(InteractionData(t, result))]

\* perform_advanced_fingerprinting once analyze_timing_patterns has
\* returned: detect_scanner_tool, analyze_browser_fingerprint,
\* calculate_threat_level
perform_advanced_fingerprinting(t) ==
    /\ pc[t] = "fingerprinting"
    /\ Fingerprinted(t,
           FingerprintingResult(
               detect_scanner_tool(req[t].headers, req[t].path, loc[t].request_body),
               Some(analyze_browser_fingerprint(req[t].headers)),
               [request_interval_ms |-> loc[t].request_interval_ms,
                burst_requests |-> loc[t].burst_requests,
                scan_pattern |-> loc[t].scan_pattern]),
           check_additional_scanner_indicators(req[t].headers, req[t].path,
                                               loc[t].request_body))
    /\ net' = [net EXCEPT ![t] = Append(@, [kind |-> "fingerprinting"])]
    /\ pc' = [pc EXCEPT ![t] = "log_store"]
    /\ UNCHANGED <<now, timing_tracker, mutex, req, last, seen, workload, calls>>

\* log_http_interaction: the POST to the attacker_logs table of the log
\* store.  (A field of the location that is None is a key the payload
\* does not have.)
http_log_store(t) ==
    /\ pc[t] = "log_store"
    /\ LET result == loc[t].fingerprint_result[1]
       IN  net' = [net EXCEPT ![t] =
                      Append(@, [kind |-> "log_store", table |-> "attacker_logs",
                                 payload |->
                                     [source_ip |-> req[t].client_ip,
                                      honeypot_type |-> "http",
                                      interaction_data |-> loc[t].interaction_data,
                                      status |-> "logged",
                                      scanner_type |-> result.scanner_type,
                                      tool_confidence |-> result.tool_confidence,
                                      threat_level |-> result.threat_level,
                                      is_real_browser |->
                                          result.browser_fingerprint[1].is_real_browser,
                                      scan_pattern |-> result.timing_patterns.scan_pattern,
                                      burst_requests |->
                                          result.timing_patterns.burst_requests,
                                      request_interval_ms |->
                                          result.timing_patterns.request_interval_ms,
                                      geo_location |-> loc[t].geo_location[1]]])]
    /\ pc' = [pc EXCEPT ![t] = "log_store_reply"]
    /\ UNCHANGED <<now, timing_tracker, mutex, req, loc, last, seen, workload, calls>>

\* a handler that answers a failure of the log store with an error page
http_log_store_reply_fatal(t, reply) ==
    /\ pc[t] = "log_store_reply"
    /\ IF reply.result = "Ok" /\ reply.success
       THEN /\ net' = [net EXCEPT ![t] = Append(@, [kind |-> "log_store_reply",
                                                    reply |-> reply])]
            /\ pc' = [pc EXCEPT ![t] = "generator"]
            /\ UNCHANGED <<req, loc, last>>
       ELSE Respond(t, [status |-> "500 Internal Server Error", page |-> "",
                        disinformation_text |-> ""])
    /\ UNCHANGED <<now, timing_tracker, mutex, seen, workload, calls>>

\* log_http_interaction: .send().await returns; the outcome is printed
http_log_store_reply(t, reply) ==
    /\ pc[t] = "log_store_reply"
    /\ net' = [net EXCEPT ![t] = Append(@, [kind |-> "log_store_reply", reply |-> reply])]
    /\ pc' = [pc EXCEPT ![t] = "generator"]
    /\ UNCHANGED <<now, timing_tracker, mutex, req, loc, last, seen, workload, calls>>

\* log_http_interaction: the POST to the generator and the disinformation
\* content taken from its reply
http_generator(t, reply) ==
    /\ pc[t] = "generator"
    /\ net' = [net EXCEPT ![t] =
                   Append(@, [kind |-> "generator",
                              payload |-> [source_ip |-> req[t].client_ip,
                                           honeypot_type |-> "http",
                                           interaction_data |-> loc[t].interaction_data,
                                           status |-> "logged",
                                           geo_location |-> loc[t].geo_location[1]],
                              reply |-> reply])]
    /\ loc' = [loc EXCEPT ![t].disinformation_content =
                   unwrap_or(ReplyContent(reply),
                             "Ein unerwarteter Fehler ist aufgetreten. Die angeforderte Ressource konnte nicht gefunden werden.")]
    /\ pc' = [pc EXCEPT ![t] = "respond"]
    /\ UNCHANGED <<now, timing_tracker, mutex, req, last, seen, workload, calls>>

\* the handler answers with the dynamic page
http_respond(t) ==
    /\ pc[t] = "respond"
    /\ Respond(t, generate_dynamic_html_response(loc[t].disinformation_content))
    /\ UNCHANGED <<now, timing_tracker, mutex, seen, workload, calls>>

InitHttp ==
    /\ InitCommon
    /\ workload = "http"

NextHttp ==
    \/ \E t \in Tasks : \E addr \in HttpAddrs : \E request \in HttpRequests :
           http_request(t, addr, request)
    \/ \E t \in Tasks : method_not_allowed(t)
    \/ \E t \in Tasks : honeypot_handler(t)
    \/ \E t \in Tasks : honeypot_handler_post(t)
    \/ \E t \in Tasks : fingerprint_handler(t)
    \/ \E t \in Tasks : lookup_geoip(t)
    \/ \E t \in Tasks : \E reply \in HttpGeoReplies : lookup_geoip_reply(t, reply)
    \/ \E t \in Tasks : \E reply \in LogStoreReplies : fingerprint_log(t, reply)
    \/ \E t \in Tasks : Lock(t)
    \/ \E t \in Tasks : \E gap \in GapsOf(workload) : PushTrim(t, gap)
    \/ \E t \in Tasks : Stats(t)
    \/ \E t \in Tasks : PruneReturn(t)
    \/ \E t \in Tasks : perform_advanced_fingerprinting(t)
    \/ \E t \in Tasks : http_log_store(t)
    \/ \E t \in Tasks : \E reply \in LogStoreReplies : http_log_store_reply(t, reply)
    \/ \E t \in Tasks : \E reply \in HttpGeneratorReplies : http_generator(t, reply)
    \/ \E t \in Tasks : http_respond(t)

SpecHttp == InitHttp /\ [][NextHttp]_vars

\* two texts that differ in the case of their letters at most
SameLetters(a, b) ==
    /\ Len(a) = Len(b)
    /\ \A i \in 1..Len(a) :
           \/ a[i] = b[i]
           \/ \E k \in 1..Len(UpperChars) : {a[i], b[i]} = {UpperChars[k], LowerChars[k]}

\* the text holds the words in some letter case
ContainsAnyCase(s, words) ==
    \E i \in 0..(Len(s) - Len(words)) : SameLetters(SubSeq(s, i + 1, i + Len(words)), words)

\* an ignored path, or the header access-control-request-method with the
\* value OPTIONS in any letter case
RefIgnored(request) ==
    \/ request.path \in ignore_paths
    \/ Len(request.path) >= Len(SwJs) /\ SubSeq(request.path, 1, Len(SwJs)) = SwJs
    \/ /\ Len(request.path) >= Len(ServiceWorker)
       /\ SubSeq(request.path, 1, Len(ServiceWorker)) = ServiceWorker
    \/ /\ "access-control-request-method" \in DOMAIN request.headers
       /\ SameLetters(request.headers["access-control-request-method"], OPTIONS)

\* the request got the simple 404, and nothing else was done for it
OnlySimple404(response, history) ==
    /\ response = generate_simple_404
    /\ history = <<[kind |-> "response", response |-> generate_simple_404]>>

UnionSelect == <<"u", "n", "i", "o", "n", " ", "s", "e", "l", "e", "c", "t">>
From == <<"f", "r", "o", "m">>

\* the body holds 'union select' and 'from' in some letter case
HasUnionSelectFrom(body) ==
    ContainsAnyCase(body, UnionSelect) /\ ContainsAnyCase(body, From)

\* the request was flagged: is_attack_request returned true, and the score
\* of check_additional_scanner_indicators is the score of its header checks
\* plus 0.3, plus what the check of the path adds
Flagged(r) ==
    /\ r.is_suspicious_request = Some(TRUE)
    /\ r.additional_indicators =
           Some(xss_indicator(F32Add(header_indicators(r.request.headers), F32_0_3),
                              r.request.path))

\* C8 (as amended): every POST request on a path other than /fingerprint
\* that is not ignored and whose body contains, in any letter case, the
\* substrings 'union select' and 'from' is flagged as an attack indicator
\* (is_attack_request is true and the matcher's generic-indicator score
\* includes the +0.3 SQL-injection bonus).
C8_PostedUnionSelectFlagged ==
    (/\ last.kind = "http"
     /\ last.request.method = "POST"
     /\ last.request.path # FingerprintPath
     /\ ~RefIgnored(last.request)
     /\ HasUnionSelectFrom(last.request.body))
        => Flagged(last)

\* C8 as stated: every request that is not ignored, whatever its method and
\* its path.
C8_EveryUnionSelectFlagged ==
    (/\ last.kind = "http"
     /\ ~RefIgnored(last.request)
     /\ HasUnionSelectFrom(last.request.body))
        => Flagged(last)

\* a POST with the words in mixed case was served by the pipeline and flagged
C8_Witness ==
    /\ last.kind = "http"
    /\ last.request.method = "POST"
    /\ ~RefIgnored(last.request)
    /\ HasUnionSelectFrom(last.request.body)
    /\ ~contains(last.request.body, UnionSelect)
    /\ Flagged(last)
    /\ last.response.page = "Systemmeldung: Interner Fehler"

(***************************************************************************)
(* A panic between TIMING_TRACKER.lock() and the return of                 *)
(* analyze_timing_patterns.  The guard of a std::sync::Mutex that is       *)
(* dropped by a panicking thread poisons the mutex, and lock() of a        *)
(* poisoned mutex returns Err, which unwrap() turns into a panic.          *)
(*                                                                         *)
(* The timestamps of the model are milliseconds since the start.  A pause  *)
(* of 50 days is written as a pause of one hour, after which retain drops  *)
(* every older entry just as well, with the flag long_pause set.           *)
(***************************************************************************)
\* let now = Utc::now(); entry; push; drain, for a request that comes after
\* a long pause
PushAfterLongPause(t) ==
    /\ workload = "poison"
    /\ pc[t] = "push"
    /\ now + HOUR_MS <= MaxTime
    /\ now' = now + HOUR_MS
    /\ LET key == req[t].client_ip
           tr == Entry(timing_tracker, key)
       IN  /\ timing_tracker' = [tr EXCEPT ![key] = Drain(Append(tr[key], now'))]
           /\ LET ip == req[t].addr.ip.o
                  sn == Entry(seen, ip)
              IN  seen' = [sn EXCEPT ![ip] =
                              Append(sn[ip], [at |-> now', port |-> req[t].addr.port])]
    /\ loc' = [loc EXCEPT ![t].at = now', ![t].long_pause = TRUE]
    /\ pc' = [pc EXCEPT ![t] = "stats"]
    /\ UNCHANGED <<mutex, req, last, workload, calls, net>>

\* the task of a handler that panicked is gone
Panicked(t, step) ==
    /\ last' = [set |-> TRUE, kind |-> "panicked", task |-> t, step |-> step,
                addr |-> req[t].addr]
    /\ pc' = [pc EXCEPT ![t] = "idle"]
    /\ req' = [req EXCEPT ![t] = NoReq]
    /\ loc' = [loc EXCEPT ![t] = NoLoc]

\* what the overflow of the squares does: a panic in a build with overflow
\* checks, while the guard is held; a wrapped variance in a build without
\* them (the mean is 1000 ms or more, so the pattern is Sequential or Random)
OverflowOutcomes == {"panic", "Sequential", "Random"}

StatsOverflow(t, outcome) ==
    /\ pc[t] = "stats"
    /\ SquaresOverflow(t)
    /\ IF outcome = "panic"
       THEN /\ mutex' = "poisoned"
            /\ Panicked(t, "determine_scan_pattern")
       ELSE /\ LET requests == timing_tracker[req[t].client_ip]
               IN  loc' = [loc EXCEPT
                           ![t].request_interval_ms = request_interval_ms(requests),
                           ![t].burst_requests =
                               count_recent_burst_requests(requests, loc[t].at),
                           ![t].scan_pattern = outcome]
            /\ pc' = [pc EXCEPT ![t] = "prune"]
            /\ UNCHANGED <<mutex, req, last>>
    /\ UNCHANGED <<now, timing_tracker, seen, workload, calls, net>>

\* TIMING_TRACKER.lock().unwrap() of a poisoned mutex
LockPoisoned(t) ==
    /\ pc[t] = "lock"
    /\ mutex = "poisoned"
    /\ Panicked(t, "lock")
    /\ UNCHANGED <<now, timing_tracker, mutex, seen, workload, calls, net>>

InitPoison ==
    /\ InitCommon
    /\ workload = "poison"

NextPoison ==
    \/ \E t \in Tasks : \E addr \in AddrsOf(workload) : TimingRequest(t, addr)
    \/ \E t \in Tasks : Lock(t)
    \/ \E t \in Tasks : LockPoisoned(t)
    \/ \E t \in Tasks : \E gap \in GapsOf(workload) : PushTrim(t, gap)
    \/ \E t \in Tasks : PushAfterLongPause(t)
    \/ \E t \in Tasks : Stats(t)
    \/ \E t \in Tasks : \E outcome \in OverflowOutcomes : StatsOverflow(t, outcome)
    \/ \E t \in Tasks : PruneReturn(t)

SpecPoison == InitPoison /\ [][NextPoison]_vars

\* C11 as stated: the abort of one handler, also while it works on the
\* Timing Tracker, leaves the Timing Tracker usable, and no later request
\* fails because of it: the mutex is never poisoned and no request ends at
\* lock().
C11_FailureStaysLocal ==
    /\ mutex # "poisoned"
    /\ ~(last.kind = "panicked" /\ last.step = "lock")

\* a request ended at lock() after the handler of another request had
\* panicked with the guard held
C11_Witness ==
    /\ mutex = "poisoned"
    /\ last.kind = "panicked"
    /\ last.step = "lock"
    /\ \A t \in Tasks : pc[t] = "idle"

\* the request was served by one of the two handlers of the wildcard routes
\* and was not ignored: it went through log_http_interaction
Logged(r) ==
    /\ r.kind = "http"
    /\ r.request.handler \in {"honeypot_handler", "honeypot_handler_post"}
    /\ ~RefIgnored(r.request)

\* the text of a generator reply that came with a success status and a
\* document with the string disinformation_payload.content
RefGeneratorText(reply) ==
    IF reply.result # "Ok" THEN None
    ELSE IF ~reply.success THEN None
    ELSE IF reply.json = None THEN None
    ELSE IF "disinformation_payload" \notin DOMAIN reply.json[1] THEN None
    ELSE IF "content" \notin DOMAIN reply.json[1].disinformation_payload THEN None
    ELSE IF reply.json[1].disinformation_payload.content.t # "str" THEN None
    ELSE <<reply.json[1].disinformation_payload.content.v>>

RefHttpDefault ==
    "Ein unerwarteter Fehler ist aufgetreten. Die angeforderte Ressource konnte nicht gefunden werden."

\* one POST to the log store, its outcome, then one call of the generator,
\* then the page with the status 200 whose text comes from the generator's
\* reply alone
OneLogThenGenerator(h, response) ==
    /\ Cardinality(EventsOf(h, "log_store")) = 1
    /\ Cardinality(EventsOf(h, "log_store_reply")) = 1
    /\ Cardinality(EventsOf(h, "generator")) = 1
    /\ \A i \in EventsOf(h, "log_store") : \A j \in EventsOf(h, "log_store_reply") :
           \A k \in EventsOf(h, "generator") :
               /\ i < j
               /\ j < k
               /\ response =
                      [status |-> "200 OK", page |-> "Systemmeldung: Interner Fehler",
                       disinformation_text |->
                           IF RefGeneratorText(h[k].reply) = None THEN RefHttpDefault
                           ELSE RefGeneratorText(h[k].reply)[1]]

\* C14 (as amended): for every GET, HEAD or POST request on a path other
\* than /fingerprint that is not ignored, the log store receives exactly one
\* POST, and whatever its outcome (success, non-2xx, network error) the
\* generator is called exactly once afterwards and the attacker receives the
\* deceptive page with the status 200, whose text depends on the
\* generator's reply alone.
C14_LoggedOnceThenGenerator ==
    Logged(last) => OneLogThenGenerator(last.history, last.response)

\* C14 as stated: every HTTP request that is not ignored.
C14_EveryRequestLoggedOnce ==
    (last.kind = "http" /\ ~RefIgnored(last.request))
        => OneLogThenGenerator(last.history, last.response)

\* a request whose POST to the log store failed with a network error got
\* the page with the text of the generator
C14_Witness ==
    /\ Logged(last)
    /\ \E j \in EventsOf(last.history, "log_store_reply") :
           last.history[j].reply.result = "Err"
    /\ last.response.disinformation_text = "The backup server moved to 10.0.5.20"
    /\ last.response.status = "200 OK"

(***************************************************************************)
(* The runtime runs a task that is ready, and the provider and the         *)
(* generator answer their calls; nothing is assumed of the log store.      *)
(***************************************************************************)
\* the step perform_advanced_fingerprinting(t), by what it does to the
\* position of the task (it is enabled whenever the task is there)
fingerprinting_step(t) ==
    /\ pc[t] = "fingerprinting"
    /\ pc' = [pc EXCEPT ![t] = "log_store"]

\* another step of the handler of task t that is not the return of the log
\* store call
HandlerStep(t) ==
    \/ method_not_allowed(t)
    \/ honeypot_handler(t)
    \/ honeypot_handler_post(t)
    \/ fingerprint_handler(t)
    \/ lookup_geoip(t)
    \/ \E reply \in HttpGeoReplies : lookup_geoip_reply(t, reply)
    \/ Lock(t)
    \/ \E gap \in GapsOf(workload) : PushTrim(t, gap)
    \/ Stats(t)
    \/ PruneReturn(t)
    \/ http_log_store(t)
    \/ \E reply \in HttpGeneratorReplies : http_generator(t, reply)
    \/ http_respond(t)

SpecHttpLive ==
    SpecHttp /\ \A t \in Tasks : WF_vars(HandlerStep(t)) /\ WF_pc(fingerprinting_step(t))

\* C15 as stated: the response to the attacker does not wait for the log
\* store: a request whose POST to the log store is under way is answered,
\* also when the log store never returns.
C15_ResponseDoesNotWaitForLogStore ==
    \A t \in Tasks : (pc[t] = "log_store_reply") ~> (pc[t] = "idle")

\* a handler is suspended in the POST to the log store, and its request
\* has no response
C15_Witness ==
    \E t \in Tasks :
        /\ pc[t] = "log_store_reply"
        /\ EventsOf(net[t], "log_store") # {}
        /\ EventsOf(net[t], "log_store_reply") = {}
        /\ EventsOf(net[t], "response") = {}
        /\ ~ENABLED HandlerStep(t)
        /\ ~ENABLED fingerprinting_step(t)

(***************************************************************************)
(* The disinformation text of the SSH front end.                           *)
(***************************************************************************)
\* the handler of task t has the text that log_ssh_interaction returned
HasSshText(t) ==
    /\ req[t].kind = "ssh"
    /\ pc[t] \in {"ssh_reply", "ssh_shutdown"}

\* the reply that the generator gave to the handler of task t
SshGeneratorReply(t) ==
    net[t][CHOOSE i \in EventsOf(net[t], "generator") : TRUE].reply

\* C16: the disinformation text is the generator's textual payload iff the
\* call succeeded with a body that has the string
\* disinformation_payload.content; every failure kind (network error,
\* non-success status, unparseable body, missing field) falls back to one and
\* the same fixed default message of the front end.  Here for the SSH front
\* end: a reply with a text gives that text, and any two connections whose
\* generator call failed have the same text.
C16_OneDefaultPerFrontEnd ==
    \A t \in Tasks : \A u \in Tasks :
        (HasSshText(t) /\ HasSshText(u)) =>
            LET rt == RefGeneratorText(SshGeneratorReply(t))
                ru == RefGeneratorText(SshGeneratorReply(u))
            IN  /\ rt # None => loc[t].disinformation_content = rt[1]
                /\ (rt = None /\ ru = None) =>
                       loc[t].disinformation_content = loc[u].disinformation_content

\* two connections whose generator call failed, one by a network error and
\* one by a non-success status, hold two different texts
C16_Witness ==
    \E t \in Tasks : \E u \in Tasks :
        /\ HasSshText(t) /\ HasSshText(u)
        /\ SshGeneratorReply(t).result = "Err"
        /\ SshGeneratorReply(u) = [result |-> "Ok", success |-> FALSE]
        /\ loc[t].disinformation_content = "KI-Fehler: Konnte keine Antwort erhalten."
        /\ loc[u].disinformation_content = "Authentication failed. Try again."

(***************************************************************************)
(* The course of one SSH connection.                                       *)
(***************************************************************************)
IsBannerWrite(e) ==
    /\ e.kind = "write"
    /\ e.ok
    /\ e.data = server_banner

\* the server shut the socket down right after it wrote the
\* authentication-failed message
MessageThenShutdown(h, i) ==
    /\ i > 1
    /\ IsAuthFailedWrite(h[i - 1])

\* C17 (amended): on every accepted SSH connection nothing is read before the
\* banner was written; a connection whose banner write succeeded ends with
\* the write of the authentication-failed message followed by the shutdown,
\* and a connection whose banner write failed is shut down at once; nothing
\* follows the shutdown, and there is one read at most.
C17_BannerFirstMessageLast ==
    \A t \in Tasks :
        LET h == net[t]
        IN  /\ \A i \in EventsOf(h, "read") : i = 2 /\ IsBannerWrite(h[1])
            /\ \A i \in EventsOf(h, "shutdown") :
                   /\ i = Len(h)
                   /\ IF IsBannerWrite(h[1]) THEN MessageThenShutdown(h, i) ELSE i = 1
            /\ \A i \in 1..Len(h) : IsAuthFailedWrite(h[i]) => i >= Len(h) - 1
            /\ (pc[t] = "idle" /\ h # <<>>) => h[Len(h)].kind = "shutdown"

\* C17 as stated: no connection is closed by the server without the
\* authentication-failed message having been written before.
C17_NeverClosedWithoutMessage ==
    \A t \in Tasks :
        \A i \in EventsOf(net[t], "shutdown") : MessageThenShutdown(net[t], i)

\* one connection went from the banner to the message and the shutdown, and
\* another was shut down after its banner write failed
C17_Witness ==
    \E t \in Tasks : \E u \in Tasks :
        /\ pc[t] = "idle" /\ pc[u] = "idle"
        /\ Len(net[t]) = 6
        /\ IsBannerWrite(net[t][1])
        /\ net[t][2].kind = "read"
        /\ MessageThenShutdown(net[t], 6)
        /\ net[u] = <<[kind |-> "shutdown"]>>

(***************************************************************************)
(* The order of the steps of one HTTP request.                             *)
(***************************************************************************)
\* in the history h every event of kind a stands before every event of
\* kind b
Before(h, a, b) ==
    \A i \in EventsOf(h, a) : \A j \in EventsOf(h, b) : i < j

\* C18 as stated: the steps of one non-ignored request occur in the order
\* fingerprint (Timing Tracker update, matcher, browser analysis, threat
\* level), enrich (geolocation lookup), dispatch (log store, generator),
\* respond; in particular the geolocation lookup comes after the Timing
\* Tracker update and the fingerprinting of the request.
C18_FingerprintThenEnrichThenDispatch ==
    \A t \in Tasks :
        LET h == net[t]
        IN  req[t].kind = "http" /\ req[t].handler # "fingerprint_handler" =>
                /\ Before(h, "tracker_update", "geo_lookup")
                /\ Before(h, "fingerprinting", "geo_lookup")
                /\ Before(h, "geo_lookup", "log_store")
                /\ Before(h, "log_store", "generator")
                /\ Before(h, "generator", "response")

\* a request whose source address was sent to the provider, and whose
\* handler then updated the Timing Tracker and computed the fingerprint
C18_Witness ==
    \E t \in Tasks :
        /\ req[t].kind = "http"
        /\ req[t].handler = "honeypot_handler"
        /\ Len(net[t]) >= 3
        /\ net[t][1].kind = "geo_lookup"
        /\ net[t][2].kind = "tracker_update"
        /\ net[t][3].kind = "fingerprinting"

(***************************************************************************)
(* The client data of a connection whose read brought nothing.             *)
(***************************************************************************)
\* the read of the history h timed out, failed, or returned zero bytes
NothingRead(h) ==
    \E i \in EventsOf(h, "read") : h[i].result # "data" \/ h[i].n = 0

\* C19 as stated: when the read of the client bytes times out, fails or
\* returns zero bytes, the captured client data is the sentinel no-banner
\* string rather than an empty string, and the connection goes on to the
\* logging and to the final response.
C19_SentinelWhenNothingRead ==
    \A t \in Tasks :
        LET h == net[t]
        IN  NothingRead(h) =>
                /\ \A j \in EventsOf(h, "log_store") :
                       h[j].payload.interaction_data.client_banner = NoClientBanner
                /\ pc[t] = "idle" =>
                       /\ EventsOf(h, "log_store") # {}
                       /\ \E j \in EventsOf(h, "write") : IsAuthFailedWrite(h[j])

\* a read of zero bytes, and the record sent to the log store has the empty
\* string as the client banner
C19_Witness ==
    \E t \in Tasks :
        LET h == net[t]
        IN  /\ \E i \in EventsOf(h, "read") : h[i].result = "data" /\ h[i].n = 0
            /\ \E j \in EventsOf(h, "log_store") :
                   /\ h[j].payload.interaction_data.client_banner = <<>>
                   /\ h[j].payload.interaction_data.username_attempt = Unknown

(***************************************************************************)
(* The confidence and the name that detect_scanner_tool reports.           *)
(***************************************************************************)
\* a score clamped to 1.0
RefClamped(score) == IF score > F32_ONE THEN F32_ONE ELSE score

\* the highest score among the signatures that exceed their threshold
IsWinner(w) ==
    /\ w \in Accepted
    /\ \A j \in Accepted : ScoreOf(j) <= ScoreOf(w)

\* C20: the confidence reported by detect_scanner_tool lies in [0,1] and is
\* the winning signature's score clamped to 1; the scanner name is empty
\* exactly when the confidence is 0, which is when no signature's score
\* exceeded its threshold.
C20_ConfidenceClampedNameIffPositive ==
    last.kind = "detect" =>
        /\ last.tool_confidence >= 0
        /\ last.tool_confidence <= F32_ONE
        /\ (last.scanner_type = None) <=> (last.tool_confidence = 0)
        /\ (last.scanner_type = None) <=> (Accepted = {})
        /\ Accepted # {} =>
               \E w \in 1..Len(SCANNER_SIGNATURES) :
                   /\ IsWinner(w)
                   /\ last.scanner_type = Some(SCANNER_SIGNATURES[w].name)
                   /\ last.tool_confidence = RefClamped(ScoreOf(w))

\* a request for which signatures have a score above zero, none above its
\* threshold: no name, confidence 0
C20_Witness ==
    /\ last.kind = "detect"
    /\ last.scanner_type = None
    /\ last.tool_confidence = 0
    /\ \E i \in 1..Len(SCANNER_SIGNATURES) : ScoreOf(i) >= F32_0_4

(***************************************************************************)
(* POST /fingerprint.                                                      *)
(***************************************************************************)
\* C21: a POST /fingerprint bypasses the scanner and threat pipeline: it
\* never updates the Timing Tracker, never calls the generator, forwards at
\* most one document tagged http_fingerprint to the log store (exactly one
\* iff the body parses as JSON), and always answers the client, whatever the
\* parse and the forwarding did.
C21_FingerprintBypassesPipeline ==
    (last.kind = "http" /\ last.request.handler = "fingerprint_handler") =>
        LET h == last.history
        IN  /\ EventsOf(h, "tracker_update") = {}
            /\ EventsOf(h, "fingerprinting") = {}
            /\ EventsOf(h, "generator") = {}
            /\ last.fingerprint_result = None
            /\ Cardinality(EventsOf(h, "log_store")) =
                   IF from_str_is_ok(last.request.body) THEN 1 ELSE 0
            /\ \A i \in EventsOf(h, "log_store") :
                   /\ h[i].table = "browser_fingerprints"
                   /\ h[i].payload.honeypot_type = "http_fingerprint"
            /\ last.response = FingerprintOk
            /\ h[Len(h)] = [kind |-> "response", response |-> FingerprintOk]

\* a fingerprint whose POST to the log store failed was answered "OK"
C21_Witness ==
    /\ last.kind = "http"
    /\ last.request.handler = "fingerprint_handler"
    /\ \E i \in EventsOf(last.history, "log_store") :
           last.history[i].reply.result = "Err"
    /\ last.response = FingerprintOk

(***************************************************************************)
(* The signature that detect_scanner_tool reports.                         *)
(***************************************************************************)
\* the first-declared of the signatures that exceed their threshold with the
\* highest score
FirstOfHighest ==
    LET highest == {i \in Accepted : \A j \in Accepted : ScoreOf(j) <= ScoreOf(i)}
    IN  CHOOSE i \in highest : \A j \in highest : i <= j

\* C22: the reported signature is the one with the strictly highest score
\* among the signatures whose score strictly exceeds their own threshold,
\* wherever it stands in the catalog; of several with the highest score the
\* first-declared is reported, and a signature whose score equals its
\* threshold is never reported.
C22_StrictlyHighestFirstDeclared ==
    last.kind = "detect" =>
        /\ Accepted = {} => last.scanner_type = None
        /\ Accepted # {} =>
               last.scanner_type = Some(SCANNER_SIGNATURES[FirstOfHighest].name)
        /\ \A i \in 1..Len(SCANNER_SIGNATURES) :
               (/\ ScoreOf(i) = SCANNER_SIGNATURES[i].confidence_threshold
                /\ \A j \in Accepted :
                       SCANNER_SIGNATURES[j].name # SCANNER_SIGNATURES[i].name)
                   => last.scanner_type # Some(SCANNER_SIGNATURES[i].name)

\* a signature scored exactly its threshold, no signature more than its own,
\* and no name was reported
C22_Witness ==
    /\ last.kind = "detect"
    /\ \E i \in 1..Len(SCANNER_SIGNATURES) :
           ScoreOf(i) = SCANNER_SIGNATURES[i].confidence_threshold
    /\ Accepted = {}
    /\ last.scanner_type = None

(***************************************************************************)
(* analyze_browser_fingerprint on its own: the headers of a request and    *)
(* the classification they get.                                            *)
(***************************************************************************)
\* the values of a header: None is a request without the header
BrowserUserAgents ==
    { None,
      Some(<<"M", "o", "z", "i", "l", "l", "a", "/", "5", ".", "0", " ", "F",
           "i", "r", "e", "f", "o", "x", "/", "1", "1", "5", ".", "0">>),
      Some(<<"M", "o", "z", "i", "l", "l", "a", "/", "5", ".", "0", " ", "(",
           "c", "o", "m", "p", "a", "t", "i", "b", "l", "e", ";", " ", "G",
           "o", "o", "g", "l", "e", "b", "o", "t", "/", "2", ".", "1", ")">>),
      Some(<<"C", "U", "R", "L", "/", "8", ".", "0">>),
      Some(<<"O", "p", "e", "r", "a", "/", "9", ".", "8", "0">>),
      Some(<<"o", "k", "h", "t", "t", "p", "/", "4", ".", "9">>),
      Some(<<"p", "y", "t", "h", "o", "n", "-", "r", "e", "q", "u", "e", "s",
           "t", "s", "/", "2", ".", "3", "1">>) }

AcceptValues == {None, Some(<<>>), Some(<<"*", "/", "*">>)}

AcceptLanguageValues == {None, Some(<<"e", "n">>)}

AcceptEncodingValues ==
    {None, Some(<<"g", "z", "i", "p", ",", " ", "b", "r">>), Some(<<"b", "r">>)}

SecFetchNames == {None, Some("sec-fetch-dest"), Some("sec-fetch-mode"), Some("sec-fetch-site")}

\* a HeaderMap with the header if it has a value
with_header(headers, name, value) ==
    IF value = None THEN headers ELSE insert(headers, name, value[1])

BrowserHeaderMaps ==
    { with_header(
          with_header(
              with_header(
                  with_header(
                      with_header(<<>>, "user-agent", ua),
                      "accept", accept),
                  "accept-language", accept_language),
              "accept-encoding", accept_encoding),
          IF sec_fetch = None THEN "none" ELSE sec_fetch[1],
          IF sec_fetch = None THEN None ELSE Some(<<"e", "m", "p", "t", "y">>)) :
      ua \in BrowserUserAgents, accept \in AcceptValues,
      accept_language \in AcceptLanguageValues,
      accept_encoding \in AcceptEncodingValues, sec_fetch \in SecFetchNames }

\* result.browser_fingerprint = Some(analyze_browser_fingerprint(headers))
analyze_browser_fingerprint_call(t) ==
    /\ pc[t] = "analyze_browser_fingerprint"
    /\ last' = [set |-> TRUE, kind |-> "browser", headers |-> req[t].headers,
                browser_fingerprint |-> analyze_browser_fingerprint(req[t].headers)]
    /\ pc' = [pc EXCEPT ![t] = "idle"]
    /\ req' = [req EXCEPT ![t] = NoReq]
    /\ UNCHANGED <<now, timing_tracker, mutex, loc, seen, workload, calls, net>>

\* a task is about to classify the headers of a request
InitBrowser ==
    /\ now = 0
    /\ timing_tracker = <<>>
    /\ seen = <<>>
    /\ mutex = "free"
    /\ loc = [t \in Tasks |-> NoLoc]
    /\ last = NoLast
    /\ calls = 0
    /\ net = [t \in Tasks |-> <<>>]
    /\ workload = "browser"
    /\ \E t \in Tasks : \E headers \in BrowserHeaderMaps :
           /\ pc = [u \in Tasks |-> IF u = t THEN "analyze_browser_fingerprint" ELSE "idle"]
           /\ req = [u \in Tasks |->
                        IF u = t THEN [kind |-> "browser", headers |-> headers]
                        ELSE NoReq]

NextBrowser ==
    \E t \in Tasks : analyze_browser_fingerprint_call(t)

SpecBrowser == InitBrowser /\ [][NextBrowser]_vars

\* the value of a header in lower case, empty without the header
RefLower(headers, name) ==
    IF name \in DOMAIN headers THEN to_lowercase(headers[name]) ELSE <<>>

\* the user agent has one of the tokens
RefHasToken(headers, tokens) ==
    \E token \in tokens : contains(RefLower(headers, "user-agent"), token)

RefDenylist ==
    { <<"c", "u", "r", "l">>, <<"w", "g", "e", "t">>, <<"p", "y", "t", "h", "o", "n">>,
      <<"r", "e", "q", "u", "e", "s", "t", "s">>, <<"b", "o", "t">>,
      <<"c", "r", "a", "w", "l", "e", "r">>, <<"s", "c", "a", "n", "n", "e", "r">>,
      <<"n", "m", "a", "p">>, <<"m", "a", "s", "s", "c", "a", "n">>,
      <<"g", "o", "b", "u", "s", "t", "e", "r">>, <<"n", "i", "k", "t", "o">>,
      <<"s", "q", "l", "m", "a", "p">>, <<"b", "u", "r", "p">> }

RefBrowserTokens ==
    { <<"m", "o", "z", "i", "l", "l", "a">>, <<"c", "h", "r", "o", "m", "e">>,
      <<"s", "a", "f", "a", "r", "i">>, <<"f", "i", "r", "e", "f", "o", "x">>,
      <<"e", "d", "g", "e">>, <<"o", "p", "e", "r", "a">> }

\* 2 (browser token) + 1 (non-empty Accept) + 1 (non-empty Accept-Language)
\* + 1 (Accept-Encoding with gzip) + 2 (a sec-fetch header)
RefBrowserScore(headers) ==
    (IF RefHasToken(headers, RefBrowserTokens) THEN 2 ELSE 0)
    + (IF "accept" \in DOMAIN headers /\ headers["accept"] # <<>> THEN 1 ELSE 0)
    + (IF "accept-language" \in DOMAIN headers /\ headers["accept-language"] # <<>>
       THEN 1 ELSE 0)
    + (IF "accept-encoding" \in DOMAIN headers
          /\ contains(headers["accept-encoding"], <<"g", "z", "i", "p">>)
       THEN 1 ELSE 0)
    + (IF DOMAIN headers \cap {"sec-fetch-dest", "sec-fetch-mode", "sec-fetch-site"} # {}
       THEN 2 ELSE 0)

\* C23: analyze_browser_authenticity returns false whenever the user agent
\* contains a denylisted non-browser token, whatever the score; otherwise it
\* returns true iff the score is 4 or more, the score being 2 (browser token
\* in the user agent) + 1 (non-empty Accept) + 1 (non-empty Accept-Language)
\* + 1 (Accept-Encoding containing gzip) + 2 (a sec-fetch-dest, -mode or
\* -site header).
C23_DenylistThenScore ==
    last.kind = "browser" =>
        last.browser_fingerprint.is_real_browser =
            (IF RefHasToken(last.headers, RefDenylist) THEN FALSE
             ELSE RefBrowserScore(last.headers) >= 4)

\* a user agent with a browser token and a denylisted token, a score of 7,
\* and the classification is "not a real browser"
C23_Witness ==
    /\ last.kind = "browser"
    /\ RefHasToken(last.headers, RefDenylist)
    /\ RefBrowserScore(last.headers) = 7
    /\ ~last.browser_fingerprint.is_real_browser

(***************************************************************************)
(* The interval and the burst count of an access.                          *)
(***************************************************************************)
\* task t has computed the statistics of its access and still holds the
\* sequence as it was after the append and the trim
HasStatistics(t) == pc[t] = "prune" /\ mutex = t

\* C24: request_interval_ms is absent when the sequence of the source holds
\* fewer than 2 timestamps after the append, and is otherwise the
\* milliseconds between the two most recent timestamps; burst_requests is the
\* number of stored timestamps (after the append and the trim to 100) that
\* lie strictly within the 10 seconds before the access, the access included.
C24_IntervalAndBurstCount ==
    \A t \in Tasks :
        HasStatistics(t) =>
            LET s == timing_tracker[req[t].client_ip]
                n == Len(s)
            IN  /\ n >= 1 /\ n <= 100
                /\ s[n] = loc[t].at
                /\ loc[t].request_interval_ms =
                       IF n < 2 THEN None ELSE Some(s[n] - s[n - 1])
                /\ loc[t].burst_requests =
                       Cardinality({i \in 1..n : loc[t].at - s[i] < 10000})
                /\ loc[t].burst_requests >= 1

\* an access exactly 10 seconds after the one before: the interval is
\* 10000 ms and the burst count is 1
C24_Witness ==
    \E t \in Tasks :
        /\ HasStatistics(t)
        /\ Len(timing_tracker[req[t].client_ip]) = 2
        /\ loc[t].request_interval_ms = Some(10000)
        /\ loc[t].burst_requests = 1

(***************************************************************************)
(* The XSS bonus of the generic indicators.                                *)
(***************************************************************************)
\* the body that the handler of a request hands to the analysis
RefBodyOf(request) ==
    IF request.handler = "honeypot_handler_post" THEN Some(request.body) ELSE None

\* the text has an XSS pattern
RefXss(text) ==
    \E pattern \in {<<"<", "s", "c", "r", "i", "p", "t">>,
                    <<"j", "a", "v", "a", "s", "c", "r", "i", "p", "t", ":">>,
                    <<"o", "n", "l", "o", "a", "d", "=">>,
                    <<"o", "n", "e", "r", "r", "o", "r", "=">>} :
        contains(to_lowercase(text), pattern)

\* the score of the header and SQL indicators of a request, which is the
\* score for a path without any pattern
RefScoreBeforeXss(request) ==
    check_additional_scanner_indicators(request.headers, <<"/">>, RefBodyOf(request))

\* C25 as stated: the generic-indicator score has the +0.2 when the request
\* path or the request body matches an XSS pattern; a request whose body
\* matches while its path does not still receives the +0.2.
C25_XssInPathOrBody ==
    (last.kind = "http" /\ last.additional_indicators # None) =>
        LET body == RefBodyOf(last.request)
            xss == \/ RefXss(last.request.path)
                   \/ body # None /\ RefXss(body[1])
        IN  last.additional_indicators[1] =
                IF xss THEN F32Add(RefScoreBeforeXss(last.request), F32_0_2)
                ELSE RefScoreBeforeXss(last.request)

\* a POST whose body has "<script" and whose path has no pattern got the
\* score of its headers alone
C25_Witness ==
    /\ last.kind = "http"
    /\ last.request.handler = "honeypot_handler_post"
    /\ last.additional_indicators # None
    /\ RefXss(last.request.body)
    /\ ~RefXss(last.request.path)
    /\ last.additional_indicators[1] = RefScoreBeforeXss(last.request)

(***************************************************************************)
(* The patterns behind a reported name.                                    *)
(***************************************************************************)
\* a user-agent, header or path pattern of the i-th signature matches the
\* request that was matched last
OwnPatternMatched(i) ==
    LET signature == SCANNER_SIGNATURES[i]
    IN  \/ /\ contains_key(last.headers, "user-agent")
           /\ \E k \in 1..Len(signature.user_agent_patterns) :
                  is_match(signature.user_agent_patterns[k],
                           to_lowercase(last.headers["user-agent"]))
        \/ \E k \in 1..Len(signature.header_patterns) :
               /\ contains_key(last.headers, signature.header_patterns[k][1])
               /\ is_match(signature.header_patterns[k][2],
                           to_lowercase(last.headers[signature.header_patterns[k][1]]))
        \/ \E k \in 1..Len(signature.path_patterns) :
               is_match(signature.path_patterns[k], to_lowercase(last.path))

\* C26 as stated: detect_scanner_tool reports the name of a signature only if
\* a user-agent, header or path pattern of that signature matched the
\* request; the generic indicators alone never lead to a name.
C26_NamedOnlyByOwnPatterns ==
    (last.kind = "detect" /\ last.scanner_type # None) =>
        \E i \in 1..Len(SCANNER_SIGNATURES) :
            /\ last.scanner_type = Some(SCANNER_SIGNATURES[i].name)
            /\ OwnPatternMatched(i)

\* a request with a browser's user agent that matches no pattern of any
\* signature is reported as Gobuster
C26_Witness ==
    /\ last.kind = "detect"
    /\ \A i \in 1..Len(SCANNER_SIGNATURES) : ~OwnPatternMatched(i)
    /\ contains_key(last.headers, "user-agent")
    /\ last.scanner_type = Some("Gobuster")

(***************************************************************************)
(* The age of the timestamps behind the statistics of an access.           *)
(***************************************************************************)
\* C27 as stated: request_interval_ms and scan_pattern of an access are
\* computed only from timestamps that are at most 1 hour older than the
\* access, also when the source was idle for an hour or more: the interval
\* comes from the two newest timestamps, the pattern (with 3 timestamps or
\* more) from all of them.
C27_StatisticsFromLastHour ==
    \A t \in Tasks :
        HasStatistics(t) =>
            LET s == timing_tracker[req[t].client_ip]
                n == Len(s)
            IN  /\ loc[t].request_interval_ms # None => loc[t].at - s[n - 1] <= 3600000
                /\ n >= 3 => \A i \in 1..n : loc[t].at - s[i] <= 3600000

\* the third access of a source comes an hour after the second: its
\* scan_pattern was computed with the first timestamp, which is more than an
\* hour old, and is Random
C27_Witness ==
    \E t \in Tasks :
        /\ HasStatistics(t)
        /\ LET s == timing_tracker[req[t].client_ip]
           IN  /\ Len(s) = 3
               /\ s[3] - s[2] = 3600000
               /\ loc[t].at - s[1] > 3600000
        /\ loc[t].request_interval_ms = Some(3600000)
        /\ loc[t].scan_pattern = "Random"

(***************************************************************************)
(* The keys of the Timing Tracker and the length of their sequences.       *)
(***************************************************************************)
\* every key maps to a sequence of 1 to 100 timestamps, and after an access
\* the newest timestamp of its source is the one the access appended
NeverEmptyNeverLong ==
    /\ \A k \in DOMAIN timing_tracker :
           Len(timing_tracker[k]) >= 1 /\ Len(timing_tracker[k]) <= 100
    /\ (mutex = "free" /\ last.set /\ last.kind = "timing") =>
           LET s == timing_tracker[last.client_ip]
           IN  s[Len(s)] = last.at

\* no step removes a key
KeysOnlyGrow == DOMAIN timing_tracker \subseteq DOMAIN timing_tracker'

\* C28: in every reachable state of the Timing Tracker the set of keys only
\* grows, and every key maps to a sequence of at least 1 and at most 100
\* timestamps: pruning never empties a sequence, because the timestamp that
\* an access appends survives the pruning of that access.
C28_KeysGrowSequencesNonEmpty ==
    [](NeverEmptyNeverLong) /\ [][KeysOnlyGrow]_vars

\* two sources are tracked, and the sequence of one was pruned down to the
\* timestamp of its latest access, an hour after the one before
C28_Witness ==
    /\ mutex = "free"
    /\ last.set
    /\ Cardinality(DOMAIN timing_tracker) = 2
    /\ Len(seen[last.client_ip]) = 2
    /\ timing_tracker[last.client_ip] = <<last.at>>

(***************************************************************************)
(* The range of the sums of determine_scan_pattern.                        *)
(***************************************************************************)
\* C29 as stated: the interval sum, each squared deviation and their sum
\* stay within the signed 64-bit range for every sequence that
\* analyze_timing_patterns can hold, a source that returns after an
\* arbitrarily long pause included: determine_scan_pattern is never reached
\* with squares that overflow, and a sequence with such a pause is never
\* classified Sequential.
C29_SquaresWithinI64 ==
    \A t \in Tasks :
        /\ pc[t] = "stats" => ~SquaresOverflow(t)
        /\ (HasStatistics(t) /\ loc[t].long_pause) => loc[t].scan_pattern # "Sequential"

\* a source with two tracked requests returned after a long pause, the
\* squares wrapped around, and the access is classified Sequential
C29_Witness ==
    \E t \in Tasks :
        /\ HasStatistics(t)
        /\ loc[t].long_pause
        /\ Len(timing_tracker[req[t].client_ip]) = 3
        /\ loc[t].scan_pattern = "Sequential"

(***************************************************************************)
(* The ingest service (src/services/api-rs/src/main.rs): POST /ingest      *)
(* forwards the event lines of the body to ClickHouse, with retries.       *)
(* In this workload seen holds the Config the service was started with.    *)
(***************************************************************************)
\* largest ingest_retries of the configurations of the model (default 3)
MaxRetries == 3
\* requests offered to the ingest service
MaxIngest == 1

\* one IngestEvent as a client writes it (ts_str left out)
IngestEventText ==
    <<"{", "\"", "o", "r", "g", "_", "i", "d", "\"", ":", "\"", "o", "\"", ",",
    "\"", "s", "e", "n", "s", "o", "r", "_", "i", "d", "\"", ":", "\"", "s",
    "\"", ",", "\"", "e", "v", "e", "n", "t", "_", "t", "y", "p", "e", "\"",
    ":", "\"", "t", "\"", ",", "\"", "s", "r", "c", "_", "i", "p", "\"", ":",
    "\"", "1", ".", "1", ".", "1", ".", "1", "\"", ",", "\"", "s", "r", "c",
    "_", "p", "o", "r", "t", "\"", ":", "1", ",", "\"", "d", "s", "t", "_",
    "p", "o", "r", "t", "\"", ":", "2", ",", "\"", "p", "r", "o", "t", "o",
    "\"", ":", "\"", "t", "c", "p", "\"", ",", "\"", "s", "e", "v", "e", "r",
    "i", "t", "y", "\"", ":", "\"", "l", "o", "w", "\"", ",", "\"", "p", "a",
    "y", "l", "o", "a", "d", "\"", ":", "\"", "p", "\"", "}">>

\* serde_json::to_string of that event: the fields in the order of the struct
IngestEventRow ==
    <<"{", "\"", "t", "s", "_", "s", "t", "r", "\"", ":", "n", "u", "l", "l",
    ",", "\"", "o", "r", "g", "_", "i", "d", "\"", ":", "\"", "o", "\"", ",",
    "\"", "s", "e", "n", "s", "o", "r", "_", "i", "d", "\"", ":", "\"", "s",
    "\"", ",", "\"", "e", "v", "e", "n", "t", "_", "t", "y", "p", "e", "\"",
    ":", "\"", "t", "\"", ",", "\"", "s", "r", "c", "_", "i", "p", "\"", ":",
    "\"", "1", ".", "1", ".", "1", ".", "1", "\"", ",", "\"", "s", "r", "c",
    "_", "p", "o", "r", "t", "\"", ":", "1", ",", "\"", "d", "s", "t", "_",
    "p", "o", "r", "t", "\"", ":", "2", ",", "\"", "p", "r", "o", "t", "o",
    "\"", ":", "\"", "t", "c", "p", "\"", ",", "\"", "s", "e", "v", "e", "r",
    "i", "t", "y", "\"", ":", "\"", "l", "o", "w", "\"", ",", "\"", "p", "a",
    "y", "l", "o", "a", "d", "\"", ":", "\"", "p", "\"", "}">>

\* request bodies: empty, an empty array, blank lines, an array with one
\* event, two newline-delimited rows, a line that is no JSON
IngestBodies ==
    { <<>>,
      <<"[", "]">>,
      <<" ", "\n", "\r", "\n", "\t">>,
      <<"[">> \o IngestEventText \o <<"]">>,
      <<"{", "}", "\n", " ", "{", "}", " ", "\r", "\n">>,
      <<"j", "u", "n", "k">> }

\* serde_json::from_str::<Vec<IngestEvent>>, for the bodies of the model:
\* Some(rows as to_string writes them), None for what is no array of events
from_str_events(body) ==
    IF body = <<"[", "]">> THEN Some(<<>>)
    ELSE IF body = <<"[">> \o IngestEventText \o <<"]">> THEN Some(<<IngestEventRow>>)
    ELSE None

\* str::lines: split at "\n", a "\r" before it belongs to the terminator
RECURSIVE str_lines(_)
str_lines(s) ==
    IF s = <<>> THEN <<>>
    ELSE LET at == {i \in 1..Len(s) : s[i] = "\n"}
             cut(l) == IF l # <<>> /\ l[Len(l)] = "\r" THEN SubSeq(l, 1, Len(l) - 1)
                       ELSE l
         IN  IF at = {} THEN <<cut(s)>>
             ELSE <<cut(SubSeq(s, 1, Min(at) - 1))>>
                  \o str_lines(SubSeq(s, Min(at) + 1, Len(s)))

\* .map(|l| l.trim()).filter(|l| !l.is_empty())
RECURSIVE trimmed_lines(_)
trimmed_lines(ls) ==
    IF ls = <<>> THEN <<>>
    ELSE (IF trim(Head(ls)) = <<>> THEN <<>> ELSE <<trim(Head(ls))>>)
         \o trimmed_lines(Tail(ls))

\* the lines ingest_handler forwards
ingest_lines(body) ==
    LET events == from_str_events(body)
    IN  IF events # None THEN events[1] ELSE trimmed_lines(str_lines(body))

\* lines.join("\n")
RECURSIVE join_lines(_)
join_lines(ls) ==
    IF ls = <<>> THEN <<>>
    ELSE IF Len(ls) = 1 THEN Head(ls)
    ELSE Head(ls) \o <<"\n">> \o join_lines(Tail(ls))

\* what client.post(..).send().await gives: a 2xx answer, another status, or
\* an error (the client's timeout of ingest_timeout_ms included)
IngestReplies == {"success", "status", "error"}

\* a client posts a body to /ingest
ingest_request(t, body) ==
    /\ workload = "ingest"
    /\ pc[t] = "idle"
    /\ calls < MaxIngest
    /\ calls' = calls + 1
    /\ req' = [req EXCEPT ![t] = [kind |-> "ingest", body |-> body]]
    /\ net' = [net EXCEPT ![t] = <<>>]
    /\ pc' = [pc EXCEPT ![t] = "ingest_handler"]
    /\ UNCHANGED <<now, timing_tracker, mutex, loc, last, seen, workload>>

\* return of the handler: Ok(status) or Err((status, text))
ingest_return(t, status) ==
    /\ net' = [net EXCEPT ![t] = Append(@, [kind |-> "response", status |-> status])]
    /\ last' = [set |-> TRUE, kind |-> "ingest", body |-> req[t].body,
                status |-> status,
                history |-> Append(net[t], [kind |-> "response", status |-> status])]
    /\ req' = [req EXCEPT ![t] = NoReq]
    /\ pc' = [pc EXCEPT ![t] = "idle"]

\* ingest_handler up to the loop: the lines of the body, 400 without any
ingest_handler(t) ==
    /\ pc[t] = "ingest_handler"
    /\ \E lines \in {ingest_lines(req[t].body)} :
           IF lines = <<>>
           THEN ingest_return(t, 400)
           ELSE /\ req' = [req EXCEPT ![t] =
                              [kind |-> "ingest", body |-> req[t].body,
                               insert_body |-> join_lines(lines),
                               attempt |-> 0, last_err |-> None]]
                /\ pc' = [pc EXCEPT ![t] = "ingest_attempt"]
                /\ UNCHANGED <<last, net>>
    /\ UNCHANGED <<now, timing_tracker, mutex, loc, seen, workload, calls>>

\* a loop that runs once more than configured
ingest_attempt_inclusive(t) ==
    /\ pc[t] = "ingest_attempt"
    /\ IF req[t].attempt <= seen.config.ingest_retries
       THEN /\ net' = [net EXCEPT ![t] =
                          Append(@, [kind |-> "insert", attempt |-> req[t].attempt,
                                     body |-> req[t].insert_body])]
            /\ pc' = [pc EXCEPT ![t] = "ingest_reply"]
            /\ UNCHANGED <<req, last>>
       ELSE ingest_return(t, 502)
    /\ UNCHANGED <<now, timing_tracker, mutex, loc, seen, workload, calls>>

\* for attempt in 0..config.ingest_retries: post the insert; after the loop
\* Err((BAD_GATEWAY, last_err or "Unknown error"))
ingest_attempt(t) ==
    /\ pc[t] = "ingest_attempt"
    /\ IF req[t].attempt < seen.config.ingest_retries
       THEN /\ net' = [net EXCEPT ![t] =
                          Append(@, [kind |-> "insert", attempt |-> req[t].attempt,
                                     body |-> req[t].insert_body])]
            /\ pc' = [pc EXCEPT ![t] = "ingest_reply"]
            /\ UNCHANGED <<req, last>>
       ELSE ingest_return(t, 502)
    /\ UNCHANGED <<now, timing_tracker, mutex, loc, seen, workload, calls>>

\* match resp: success returns Ok(StatusCode::OK), anything else sets last_err
ingest_reply(t, reply) ==
    /\ pc[t] = "ingest_reply"
    /\ IF reply = "success"
       THEN /\ net' = [net EXCEPT ![t] =
                          Append(Append(@, [kind |-> "reply", reply |-> reply]),
                                 [kind |-> "response", status |-> 200])]
            /\ last' = [set |-> TRUE, kind |-> "ingest", body |-> req[t].body,
                        status |-> 200,
                        history |-> Append(Append(net[t], [kind |-> "reply", reply |-> reply]),
                                           [kind |-> "response", status |-> 200])]
            /\ req' = [req EXCEPT ![t] = NoReq]
            /\ pc' = [pc EXCEPT ![t] = "idle"]
       ELSE /\ net' = [net EXCEPT ![t] = Append(@, [kind |-> "reply", reply |-> reply])]
            /\ req' = [req EXCEPT ![t].last_err = Some(reply)]
            /\ pc' = [pc EXCEPT ![t] = "ingest_sleep"]
            /\ UNCHANGED last
    /\ UNCHANGED <<now, timing_tracker, mutex, loc, seen, workload, calls>>

\* tokio::time::sleep(100 * 2^attempt ms), after every failed attempt
ingest_sleep(t) ==
    /\ pc[t] = "ingest_sleep"
    /\ now' = now + 100 * 2^(req[t].attempt)
    /\ net' = [net EXCEPT ![t] =
                  Append(@, [kind |-> "sleep", ms |-> 100 * 2^(req[t].attempt)])]
    /\ req' = [req EXCEPT ![t].attempt = @ + 1]
    /\ pc' = [pc EXCEPT ![t] = "ingest_attempt"]
    /\ UNCHANGED <<timing_tracker, mutex, loc, last, seen, workload, calls>>

\* the service starts with a Config; ingest_retries is read from the environment
InitIngest ==
    /\ now = 0
    /\ timing_tracker = <<>>
    /\ \E n \in 0..MaxRetries :
           seen = [config |-> [ingest_retries |-> n, ingest_timeout_ms |-> 5000]]
    /\ mutex = "free"
    /\ pc = [t \in Tasks |-> "idle"]
    /\ req = [t \in Tasks |-> NoReq]
    /\ loc = [t \in Tasks |-> NoLoc]
    /\ last = NoLast
    /\ calls = 0
    /\ net = [t \in Tasks |-> <<>>]
    /\ workload = "ingest"

\* the steps of one handler; every send ends, by an answer or by the timeout
\* of the client, and every sleep ends
IngestStep(t) ==
    \/ ingest_handler(t)
    \/ ingest_attempt(t)
    \/ \E reply \in IngestReplies : ingest_reply(t, reply)
    \/ ingest_sleep(t)

NextIngest ==
    \/ \E t \in Tasks : \E body \in IngestBodies : ingest_request(t, body)
    \/ \E t \in Tasks : IngestStep(t)

SpecIngest == InitIngest /\ [][NextIngest]_vars

\* the inserts sent in a history
InsertsOf(h) == {i \in 1..Len(h) : h[i].kind = "insert"}

\* the answers ClickHouse gave in a history
RepliesOf(h) == {i \in 1..Len(h) : h[i].kind = "reply"}

\* the body has an event line: an array with an event, or a line that has a
\* character other than white space
HasEventLine(body) ==
    IF body = <<"[", "]">> THEN FALSE
    ELSE \E i \in 1..Len(body) : ~is_whitespace(body[i])

\* a history obeys the retry budget: at most ingest_retries inserts, and a
\* successful answer is followed by the response 200 and nothing else
WithinBudget(h) ==
    /\ Cardinality(InsertsOf(h)) <= seen.config.ingest_retries
    /\ \A i \in RepliesOf(h) :
           h[i].reply = "success" =>
               /\ i + 1 = Len(h)
               /\ h[i + 1] = [kind |-> "response", status |-> 200]
    /\ \A i \in 1..Len(h) : h[i].kind = "response" => i = Len(h)

\* a finished request got the status the attempts call for
StatusFitsAttempts(r) ==
    LET h == r.history
    IN  /\ r.status \in {200, 400, 502}
        /\ HasEventLine(r.body) <=> r.status # 400
        /\ r.status = 400 => InsertsOf(h) = {}
        /\ r.status = 200 =>
               /\ Len(h) >= 3
               /\ h[Len(h) - 1] = [kind |-> "reply", reply |-> "success"]
               /\ h[Len(h) - 2].kind = "insert"
        /\ r.status = 502 =>
               /\ Cardinality(InsertsOf(h)) = seen.config.ingest_retries
               /\ Cardinality(RepliesOf(h)) = seen.config.ingest_retries
               /\ \A i \in RepliesOf(h) : h[i].reply # "success"

\* the steps a running handler has left at most: three for every attempt of
\* the budget (send, answer, sleep), the parse and the return
StepsLeft(t) ==
    LET budget == seen.config.ingest_retries
    IN  CASE pc[t] = "ingest_handler" -> 3 * budget + 2
          [] pc[t] = "ingest_attempt" -> 3 * (budget - req[t].attempt) + 1
          [] pc[t] = "ingest_reply" -> 3 * (budget - req[t].attempt)
          [] pc[t] = "ingest_sleep" -> 3 * (budget - req[t].attempt) - 1
          [] OTHER -> 0

\* a running handler is never stuck
NeverStuck ==
    \A t \in Tasks : pc[t] # "idle" => StepsLeft(t) >= 1 /\ ENABLED IngestStep(t)

\* every step of a running handler brings it closer to its return
StepsDescend ==
    \A t \in Tasks :
        pc[t] # "idle" /\ pc'[t] # pc[t] => StepsLeft(t)' < StepsLeft(t)

\* a handler returns with a response as the last event of its history
ReturnsWithResponse ==
    \A t \in Tasks :
        pc[t] # "idle" /\ pc'[t] = "idle" =>
            /\ net'[t][Len(net'[t])].kind = "response"
            /\ last' = [set |-> TRUE, kind |-> "ingest", body |-> req[t].body,
                        status |-> net'[t][Len(net'[t])].status, history |-> net'[t]]

\* C30: a request to the ingest service is sent to ClickHouse at most
\* ingest_retries times, never again after a successful attempt, which is
\* answered 200; 502 is returned only when ingest_retries attempts have all
\* failed, 400 exactly when the body has no event line (and then nothing is
\* sent). A running handler always has a step to take, every step lowers the
\* number of steps it has left, and it ends by returning one of the three.
C30_BoundedRetriesThenStatus ==
    /\ [](\A t \in Tasks : WithinBudget(net[t]))
    /\ [](last.kind = "ingest" => WithinBudget(last.history) /\ StatusFitsAttempts(last))
    /\ []NeverStuck
    /\ [][StepsDescend /\ ReturnsWithResponse]_vars

\* three attempts failed, one by an error and one by a status, and the
\* request was answered 502
C30_Witness ==
    /\ last.kind = "ingest"
    /\ last.status = 502
    /\ Cardinality(InsertsOf(last.history)) = MaxRetries
    /\ \E i, j \in RepliesOf(last.history) :
           last.history[i].reply = "error" /\ last.history[j].reply = "status"

====
